---- MODULE Spec2Model ----
(***************************************************************************)
(* A model of codepot's provisioning core:                                 *)
(*   - init_networking and its two helpers (src/src/init/networking.rs),   *)
(*   - Config::write (src/src/config.rs),                                  *)
(*   - EphemeralContainer of the initrd variant                            *)
(*     (src/src/init/build_image.rs) and of the block-image variant        *)
(*     (src/src/build_image.rs),                                           *)
(*   - BootArgs::arg and MachineConfigurator::new                          *)
(*     (src/src/machine/config.rs),                                        *)
(*   - the init and the run subcommand of main (src/src/main.rs).          *)
(*                                                                         *)
(* External commands are modelled by their effect on an explicit host      *)
(* state.  A command either runs (its effect and exit status follow from   *)
(* the host state) or does not run at all (spawn failure, sudo refusing),  *)
(* in which case it has no effect and the caller sees an error.            *)
(***************************************************************************)
EXTENDS Integers, Sequences, FiniteSets, TLC

VARIABLES
    \* ---- init_networking --------------------------------------------
    npc,        \* position inside init_networking
    nargs,      \* its arguments: max_parallel_vm_count, host_if_name, net
    nhostAddr,  \* host_address (an Ipv4Net) or NoNet
    ifs,        \* the Vec<InterfaceConfig> built by the loop
    nidx,       \* index of the next command of the pass
    nresult,    \* "none" | "ok" | "capacity_error" | "panic" | "cmd_error"
    ncmds,      \* the commands handed to run_sudo in this pass, in order
    host,       \* the host's network state
    passes,     \* number of calls of init_networking so far
    completed,  \* number of those calls that returned Ok
    \* ---- Config::write ----------------------------------------------
    cpc, cfg, cfgFile, cresult,
    \* ---- EphemeralContainer (both variants) -------------------------
    bpc, bvariant, bstdout, container, bstep, cmdLog, extRoots, bresult,
    printed, initrdFile, kernelFile,
    imageFile, guardArmed, defused, stagingDir, mountDir, mounted,
    \* ---- BootArgs ---------------------------------------------------
    apc, bootArgs, argKey, argValue, argBase,
    \* ---- main and MachineConfigurator ---------------------------------
    mpc,        \* position inside main (the init or the run subcommand)
    largs,      \* the arguments given to MachineConfigurator::new
    launch,     \* the VmmConfig it built, or NoLaunch
    \* ---- two `codepot init` processes on one host --------------------
    procs       \* per process: position, arguments, what it allocated

netVars   == <<npc, nargs, nhostAddr, ifs, nidx, nresult, ncmds, host, passes,
               completed>>
cfgVars   == <<cpc, cfg, cfgFile, cresult>>
buildVars == <<bpc, bvariant, bstdout, container, bstep, cmdLog, extRoots,
               bresult, printed, initrdFile, kernelFile,
               imageFile, guardArmed, defused, stagingDir, mountDir, mounted>>
bootVars  == <<apc, bootArgs, argKey, argValue, argBase>>
mainVars  == <<mpc, largs, launch, procs>>
vars      == <<netVars, cfgVars, buildVars, bootVars, mainVars>>

(***************************************************************************)
(* Bounds of the model.                                                    *)
(***************************************************************************)
MaxSlots  == 2      \* max_parallel_vm_count ranges over 0..MaxSlots
MaxPasses == 2      \* calls of init_networking in one behaviour
MaxStrLen == 2      \* length of the keys and values given to BootArgs::arg
MaxOutLen == 3      \* length of the stdout of `buildah from`

\* no VmmConfig has been built
NoLaunch == [built |-> FALSE]

Min(a, b) == IF a <= b THEN a ELSE b
Max(a, b) == IF a >= b THEN a ELSE b
Range(s)  == { s[i] : i \in DOMAIN s }

(***************************************************************************)
(* IPv4 networks (ipnet::Ipv4Net): an address and a prefix length.  The    *)
(* blocks of the model lie in 10.0.0.0/24 and an address is written as its *)
(* offset from 10.0.0.0 (its last octet), so 10.0.0.0/29 is Ipv4Net(0, 29).*)
(***************************************************************************)
NoNet == [addr |-> -1, prefix_len |-> -1]

Ipv4Net(a, p) == [addr |-> a, prefix_len |-> p]
BlockSize(net) == 2^(32 - net.prefix_len)
Network(net)   == net.addr - (net.addr % BlockSize(net))
Broadcast(net) == Network(net) + BlockSize(net) - 1

\* Ipv4Net::hosts(): the range of host addresses; network and broadcast
\* address are excluded when the prefix is shorter than 31 (the saturating
\* add and sub of the library cannot saturate inside 10.0.0.0/24).
HostsStart(net) ==
    IF net.prefix_len < 31 THEN Network(net) + 1 ELSE Network(net)
HostsEnd(net) ==
    IF net.prefix_len < 31 THEN Broadcast(net) - 1 ELSE Broadcast(net)
HostsCount(net) ==
    IF HostsStart(net) <= HostsEnd(net) THEN HostsEnd(net) - HostsStart(net) + 1 ELSE 0
\* the k-th item (k >= 1) the iterator yields
HostsNth(net, k) == HostsStart(net) + k - 1

(***************************************************************************)
(* Inputs of init_networking.                                              *)
(***************************************************************************)
PrefixLens == {29, 30, 31, 32}
AddrOffsets == {0, 5, 7}
Blocks == { Ipv4Net(o, p) : o \in AddrOffsets, p \in PrefixLens }
HostIfNames == {"eth0", "eth1"}
\* rand::distributions::Alphanumeric: a-z, A-Z, 0-9
Alphanumeric ==
    { "a", "b", "c", "d", "e", "f", "g", "h", "i", "j", "k", "l", "m",
      "n", "o", "p", "q", "r", "s", "t", "u", "v", "w", "x", "y", "z",
      "A", "B", "C", "D", "E", "F", "G", "H", "I", "J", "K", "L", "M",
      "N", "O", "P", "Q", "R", "S", "T", "U", "V", "W", "X", "Y", "Z",
      "0", "1", "2", "3", "4", "5", "6", "7", "8", "9" }
\* the 6-character strings Alphanumeric.sample_string(.., 6) returns here
IfNameSamples == { <<"A", "A", "A", "A", "A", "A">>, <<"b", "7", "Z", "q", "0", "1">> }
IF_NAME_PREFIX == <<"v", "e", "t", "h", "c", "d", "p", "t">>
\* random_if_name(): format!("vethcdpt{}", sample); a name is the sequence
\* of its characters
RandomIfName(sample) == IF_NAME_PREFIX \o sample
IfNames == { RandomIfName(sample) : sample \in IfNameSamples }
BRIDGE_NAME == <<"c", "o", "d", "e", "p", "o", "t", "0">>
MacAddresses == <<"06:00:AC:10:00:02">>     \* std::iter::once(..)

InterfaceConfig(n, a, b) == [if_name |-> n, ip_address |-> a, mac_address |-> b]

(***************************************************************************)
(* The host: devices, addresses and firewall rules.                        *)
(***************************************************************************)
\* a rule is <<table, chain, match and target; -i device; -o interface>>
Rule(text, in_dev, out_if) == <<text, in_dev, out_if>>
RULE_CONNTRACK ==
    Rule("FORWARD -m conntrack --ctstate RELATED,ESTABLISHED -j ACCEPT", <<>>, "")
RuleMasquerade(hif) == Rule("-t nat POSTROUTING -j MASQUERADE", <<>>, hif)
RULE_BRIDGE == Rule("FORWARD -j ACCEPT", BRIDGE_NAME, "")
Rules == {RULE_CONNTRACK, RULE_BRIDGE} \cup { RuleMasquerade(h) : h \in HostIfNames }

CleanHost ==
    [ ip_forward |-> FALSE,
      tun        |-> TRUE,                     \* /dev/net/tun is available
      devices    |-> {},                       \* names of existing links
      addrs      |-> {},                       \* addresses on the bridge
      up         |-> {},                       \* links that are up
      master     |-> {},                       \* taps enslaved to the bridge
      rules      |-> [r \in Rules |-> 0] ]     \* copies of each rule

\* a clean host without the tun driver: `ip tuntap add` exits non-zero
NoTunHost == [CleanHost EXCEPT !.tun = FALSE]
InitialHosts == {CleanHost, NoTunHost}

Cmd(op, arg) == [op |-> op, arg |-> arg]

\* The exit status of the ip / iptables / echo operation of the command on
\* host state h (TRUE: zero), before any `|| true`.
OpSucceeds(c, h) ==
    CASE c.op = "ip_forward"   -> TRUE
      [] c.op = "link_del"     -> c.arg \in h.devices
      [] c.op = "bridge_add"   -> c.arg \notin h.devices
      [] c.op = "addr_add"     -> BRIDGE_NAME \in h.devices /\ c.arg \notin h.addrs
      [] c.op = "link_up"      -> c.arg \in h.devices
      [] c.op = "ipt_delete"   -> h.rules[c.arg] > 0
      [] c.op = "ipt_append"   -> TRUE
      [] c.op = "tuntap_add"   -> c.arg \notin h.devices /\ h.tun
      [] c.op = "set_master"   -> c.arg \in h.devices /\ BRIDGE_NAME \in h.devices
      [] OTHER                 -> FALSE

\* the commands written `... || true`
OrTrue(c) == c.op \in {"link_del", "ipt_delete"}

\* The exit status of the whole shell command on host state h (TRUE: zero).
CmdSucceeds(c, h) == OrTrue(c) \/ OpSucceeds(c, h)

\* The host after the shell command ran on h.
CmdEffect(c, h) ==
    CASE c.op = "ip_forward" -> [h EXCEPT !.ip_forward = TRUE]
      [] c.op = "link_del" ->
            IF c.arg = BRIDGE_NAME
            THEN [h EXCEPT !.devices = @ \ {c.arg}, !.up = @ \ {c.arg},
                           !.addrs = {}, !.master = {}]
            ELSE [h EXCEPT !.devices = @ \ {c.arg}, !.up = @ \ {c.arg},
                           !.master = @ \ {c.arg}]
      [] c.op = "bridge_add" /\ CmdSucceeds(c, h) ->
            [h EXCEPT !.devices = @ \cup {c.arg}]
      [] c.op = "addr_add" /\ CmdSucceeds(c, h) ->
            [h EXCEPT !.addrs = @ \cup {c.arg}]
      [] c.op = "link_up" /\ CmdSucceeds(c, h) ->
            [h EXCEPT !.up = @ \cup {c.arg}]
      [] c.op = "ipt_delete" ->
            [h EXCEPT !.rules[c.arg] = Max(@ - 1, 0)]    \* -D removes one copy
      [] c.op = "ipt_append" ->
            [h EXCEPT !.rules[c.arg] = @ + 1]
      [] c.op = "tuntap_add" /\ CmdSucceeds(c, h) ->
            [h EXCEPT !.devices = @ \cup {c.arg}]
      [] c.op = "set_master" /\ CmdSucceeds(c, h) ->
            [h EXCEPT !.master = @ \cup {c.arg}]
      [] OTHER -> h

\* a setup_tap_interface that leaves the tap down
SetupTapInterfaceNoUp(if_name) ==
    << Cmd("link_del", if_name),
       Cmd("tuntap_add", if_name),
       Cmd("set_master", if_name) >>

\* setup_tap_interface(if_name): the commands it runs, in order
SetupTapInterface(if_name) ==
    << Cmd("link_del", if_name),
       Cmd("tuntap_add", if_name),
       Cmd("set_master", if_name),
       Cmd("link_up", if_name) >>

\* setup_host_interface without the delete-before-append of the rules
SetupHostInterfaceNoRuleDelete(host_if_name, host_address) ==
    << Cmd("link_del", BRIDGE_NAME),
       Cmd("bridge_add", BRIDGE_NAME),
       Cmd("addr_add", host_address),
       Cmd("link_up", BRIDGE_NAME),
       Cmd("ipt_append", RULE_CONNTRACK),
       Cmd("ipt_append", RuleMasquerade(host_if_name)),
       Cmd("ipt_append", RULE_BRIDGE) >>

\* setup_host_interface(host_if_name, host_address): the commands it runs
SetupHostInterface(host_if_name, host_address) ==
    << Cmd("link_del", BRIDGE_NAME),
       Cmd("bridge_add", BRIDGE_NAME),
       Cmd("addr_add", host_address),
       Cmd("link_up", BRIDGE_NAME),
       Cmd("ipt_delete", RULE_CONNTRACK),
       Cmd("ipt_delete", RuleMasquerade(host_if_name)),
       Cmd("ipt_delete", RULE_BRIDGE),
       Cmd("ipt_append", RULE_CONNTRACK),
       Cmd("ipt_append", RuleMasquerade(host_if_name)),
       Cmd("ipt_append", RULE_BRIDGE) >>

RECURSIVE TapCommands(_, _)
TapCommands(list, i) ==
    IF i > Len(list) THEN <<>>
    ELSE SetupTapInterface(list[i].if_name) \o TapCommands(list, i + 1)

\* a pass that sets the taps up before the bridge they are attached to
PassCommandsTapsFirst(args, host_address, list) ==
    TapCommands(list, 1)
    \o << Cmd("ip_forward", "1") >>
    \o SetupHostInterface(args.host_if_name, host_address)

\* the commands of one pass after the allocation (lines 108-116)
PassCommands(args, host_address, list) ==
    << Cmd("ip_forward", "1") >>
    \o SetupHostInterface(args.host_if_name, host_address)
    \o TapCommands(list, 1)

\* the capacity check with the gateway's address forgotten
CapacityOkNoGateway(n, net) == n <= HostsCount(net)

\* ensure!(max_parallel_vm_count + 1 <= net.hosts().count())
CapacityOk(n, net) == n + 1 <= HostsCount(net)

\* the network address of the block taken as the gateway's
HostAddressNetwork(net) == Ipv4Net(Network(net), net.prefix_len)

\* lines 79-86: the first item of net.hosts() with the prefix length of net
HostAddress(net) == Ipv4Net(HostsNth(net, 1), net.prefix_len)

\* a slot count check that lets every count through
UnimplementedNever(n) == FALSE

\* if max_parallel_vm_count > 1 { todo!(); }
Unimplemented(n) == n > 1

\* the zip without the gateway's address taken from the iterator first
ZipInterfacesFromFirst(order, net) ==
    [ i \in 1..Min(Min(Len(order), HostsCount(net)), Len(MacAddresses)) |->
        InterfaceConfig(order[i],
                        Ipv4Net(HostsNth(net, i), net.prefix_len),
                        MacAddresses[i]) ]

\* s.into_iter().zip(ip_addresses.map(..)).zip(mac_addresses).map(..).collect()
\* `order` is the order the HashSet yields its names in; ip_addresses has
\* already yielded the gateway's address.
ZipInterfaces(order, net) ==
    [ i \in 1..Min(Min(Len(order), HostsCount(net) - 1), Len(MacAddresses)) |->
        InterfaceConfig(order[i],
                        Ipv4Net(HostsNth(net, i + 1), net.prefix_len),
                        MacAddresses[i]) ]

Orders(s) == { q \in [1..Cardinality(s) -> s] : Range(q) = s }

\* a run_sudo that does not look at the exit status
RunSudoIgnoringStatus(status_ok) == "ok"

\* run_sudo, lines 11-19: bail! when the exit status is not zero
RunSudo(status_ok) == IF status_ok THEN "ok" ELSE "err"

NetOnly == UNCHANGED <<cfgVars, buildVars, bootVars, mainVars>>
CfgOnly == UNCHANGED <<netVars, buildVars, bootVars, mainVars>>
BuildOnly == UNCHANGED <<netVars, cfgVars, bootVars, mainVars>>
BootOnly == UNCHANGED <<netVars, cfgVars, buildVars, mainVars>>

\* init_networking, lines 73-91: the capacity check, the gateway, the todo!()
NetCall ==
    /\ npc = "idle"
    /\ passes < MaxPasses
    /\ passes' = passes + 1
    /\ ncmds' = <<>>
    /\ nidx' = 0
    /\ ifs' = <<>>
    /\ IF ~CapacityOk(nargs.max_parallel_vm_count, nargs.net)
       THEN /\ npc' = "done"
            /\ nresult' = "capacity_error"
            /\ nhostAddr' = NoNet
       ELSE IF HostsCount(nargs.net) = 0
       THEN /\ npc' = "done"
            /\ nresult' = "invalid_hostmask"
            /\ nhostAddr' = NoNet
       ELSE IF Unimplemented(nargs.max_parallel_vm_count)
       THEN /\ npc' = "done"
            /\ nresult' = "panic"
            /\ nhostAddr' = NoNet
       ELSE /\ npc' = "loop"
            /\ nresult' = "none"
            /\ nhostAddr' = HostAddress(nargs.net)
    /\ UNCHANGED <<nargs, host, completed>>
    /\ NetOnly

\* a test that rejects every batch of names
BatchCompleteNever(s, n) == FALSE

\* if s.len() == max_parallel_vm_count { break .. }
BatchComplete(s, n) == Cardinality(s) = n

\* one iteration of the loop of lines 94-106
NetNameLoop ==
    /\ npc = "loop"
    /\ \E draw \in [1..nargs.max_parallel_vm_count -> IfNames] :
         LET s == Range(draw) IN
         IF BatchComplete(s, nargs.max_parallel_vm_count)
         THEN /\ \E order \in Orders(s) : ifs' = ZipInterfaces(order, nargs.net)
              /\ npc' = "cmds"
              /\ nidx' = 1
         ELSE UNCHANGED <<ifs, npc, nidx>>
    /\ UNCHANGED <<nargs, nhostAddr, nresult, ncmds, host, passes, completed>>
    /\ NetOnly

NextCmd == PassCommands(nargs, nhostAddr, ifs)[nidx]
LastCmd == nidx = Len(PassCommands(nargs, nhostAddr, ifs))

\* run_sudo(cmd)? where sudo ran the shell command
NetCmdRuns ==
    /\ npc = "cmds"
    /\ ncmds' = Append(ncmds, NextCmd)
    /\ host' = CmdEffect(NextCmd, host)
    /\ IF RunSudo(CmdSucceeds(NextCmd, host)) = "err"
       THEN /\ npc' = "done" /\ nresult' = "cmd_error" /\ nidx' = nidx
            /\ completed' = completed
       ELSE IF LastCmd
       THEN /\ npc' = "done" /\ nresult' = "ok" /\ nidx' = nidx
            /\ completed' = completed + 1
       ELSE /\ npc' = "cmds" /\ nresult' = nresult /\ nidx' = nidx + 1
            /\ completed' = completed
    /\ UNCHANGED <<nargs, nhostAddr, ifs, passes>>
    /\ NetOnly

\* run_sudo(cmd)? where the shell command was not run: sudo could not be
\* spawned (output()? fails) or refused and exited non-zero (bail!).  No
\* effect on the host, an error for the caller.
NetCmdNotRun ==
    /\ npc = "cmds"
    /\ ncmds' = Append(ncmds, NextCmd)
    /\ npc' = "done"
    /\ nresult' = "cmd_error"
    /\ UNCHANGED <<nargs, nhostAddr, ifs, nidx, host, passes, completed>>
    /\ NetOnly

\* the caller runs init_networking again with the same arguments
NetAgain ==
    /\ npc = "done"
    /\ passes < MaxPasses
    /\ npc' = "idle"
    /\ UNCHANGED <<nargs, nhostAddr, ifs, nidx, nresult, ncmds, host, passes,
                   completed>>
    /\ NetOnly

NetNext ==
    \/ NetCall
    \/ NetNameLoop
    \/ NetCmdRuns
    \/ NetCmdNotRun
    \/ NetAgain

(***************************************************************************)
(* Config::write (src/src/config.rs).                                      *)
(***************************************************************************)
NoFile == [exists |-> FALSE, content |-> <<>>]
File(c) == [exists |-> TRUE, content |-> c]

\* Config::new
Config(n, net, host_ifname, host_address, interfaces) ==
    [ max_parallel_vm_count |-> n, net |-> net, host_ifname |-> host_ifname,
      host_address |-> host_address, interfaces |-> interfaces ]

\* serde_json::to_string(self): the document as its sequence of tokens
ToJson(c) ==
    << "{",
       [key |-> "max_parallel_vm_count", value |-> c.max_parallel_vm_count],
       [key |-> "net", value |-> c.net],
       [key |-> "host_ifname", value |-> c.host_ifname],
       [key |-> "host_address", value |-> c.host_address],
       [key |-> "interfaces", value |-> c.interfaces],
       "}" >>

\* the records main hands to Config::write: what init_networking returned
Configs ==
    { Config(n, net, hif, Ipv4Net(HostsNth(net, 1), net.prefix_len),
             ZipInterfaces(order, net)) :
        n \in {m \in 0..MaxSlots : m <= 1}, net \in Blocks, hif \in HostIfNames,
        order \in UNION { Orders(s) : s \in SUBSET IfNames } }

WritableConfigs ==
    { c \in Configs : /\ CapacityOk(c.max_parallel_vm_count, c.net)
                      /\ Len(c.interfaces) = c.max_parallel_vm_count }

\* the record an earlier `codepot init --host-interface wlan0` wrote
OldContent == ToJson(Config(0, Ipv4Net(0, 29), "wlan0", Ipv4Net(1, 29), <<>>))

\* File::create: an existing file is truncated
CreateTruncating(file) == [ok |-> TRUE, file |-> File(<<>>)]

\* File::create_new: fails on an existing file, else creates an empty one
CreateNew(file) ==
    IF file.exists THEN [ok |-> FALSE, file |-> file]
    ELSE [ok |-> TRUE, file |-> File(<<>>)]

\* File::create_new(path)?
CfgCreateNew ==
    /\ cpc = "start"
    /\ cfgFile' = CreateNew(cfgFile).file
    /\ IF CreateNew(cfgFile).ok
       THEN cpc' = "write" /\ cresult' = "none"
       ELSE cpc' = "done" /\ cresult' = "err_exists"
    /\ UNCHANGED cfg
    /\ CfgOnly

\* File::create_new(path)? failing for another reason (permissions, ...)
CfgCreateFails ==
    /\ cpc = "start"
    /\ ~cfgFile.exists
    /\ cpc' = "done"
    /\ cresult' = "err_io"
    /\ UNCHANGED <<cfg, cfgFile>>
    /\ CfgOnly

\* file.write_all(contents)? writing everything
CfgWriteAll ==
    /\ cpc = "write"
    /\ cfgFile' = File(ToJson(cfg))
    /\ cpc' = "done"
    /\ cresult' = "ok"
    /\ UNCHANGED cfg
    /\ CfgOnly

\* file.write_all(contents)? failing after k tokens (disk full, I/O error)
CfgWriteFails ==
    /\ cpc = "write"
    /\ \E k \in 0..(Len(ToJson(cfg)) - 1) :
          cfgFile' = File(SubSeq(ToJson(cfg), 1, k))
    /\ cpc' = "done"
    /\ cresult' = "err_io"
    /\ UNCHANGED cfg
    /\ CfgOnly

\* Config::new(..).write(&config_path) is called again, by a later run of
\* `codepot init`, with the record of that run
CfgAgain ==
    /\ cpc = "done"
    /\ cfg' \in WritableConfigs
    /\ cpc' = "start"
    /\ cresult' = "none"
    /\ UNCHANGED cfgFile
    /\ CfgOnly

CfgNext ==
    \/ CfgCreateNew
    \/ CfgCreateFails
    \/ CfgWriteAll
    \/ CfgWriteFails
    \/ CfgAgain

(***************************************************************************)
(* EphemeralContainer: the build root and its teardown.                    *)
(*   bvariant = "initrd": src/src/init/build_image.rs (init_images)        *)
(*   bvariant = "image":  src/src/build_image.rs (build, then to_image)    *)
(***************************************************************************)
\* characters the stdout of `buildah from` is made of
NL   == "\n"
TAB  == "\t"
CR   == "\r"
EACUTE == "U+00E9"        \* a non-ASCII letter
NBSP   == "U+00A0"        \* a non-ASCII white space
OutChars == {"a", NL, TAB, CR, EACUTE, NBSP}

Strings(chars, n) == UNION { [1..k -> chars] : k \in 0..n }
RawOutputs == Strings(OutChars, MaxOutLen)
InvalidUtf8 == <<"not utf-8">>
NoId == <<"-">>

IsAsciiChar(c) == c \notin {EACUTE, NBSP}
\* char::is_whitespace
IsWhitespace(c) == c \in {NL, TAB, CR, NBSP}

RECURSIVE TrimStart(_)
TrimStart(s) ==
    IF s # <<>> /\ IsWhitespace(Head(s)) THEN TrimStart(Tail(s)) ELSE s
RECURSIVE TrimEnd(_)
TrimEnd(s) ==
    IF s # <<>> /\ IsWhitespace(s[Len(s)]) THEN TrimEnd(SubSeq(s, 1, Len(s) - 1)) ELSE s
\* str::trim
Trim(s) == TrimEnd(TrimStart(s))

\* the validation with the control-character test left out
ValidIdAsciiOnly(id) == \A i \in DOMAIN id : IsAsciiChar(id[i])

\* container_id.is_ascii() && !container_id.contains(['\n', '\t', '\r'])
ValidId(id) ==
    /\ \A i \in DOMAIN id : IsAsciiChar(id[i])
    /\ ~ \E i \in DOMAIN id : id[i] \in {NL, TAB, CR}

NoContainer == [container_id |-> NoId, username |-> "", password |-> "",
                uid |-> 0, gid |-> 0, live |-> FALSE]
EphemeralContainer(id, username, password) ==
    [container_id |-> id, username |-> username, password |-> password,
     uid |-> 1000, gid |-> 1000, live |-> TRUE]

Step(op, phase) == [op |-> op, phase |-> phase]

\* EphemeralContainer::setup of the initrd variant: its commands, in order
SetupStepsInitrd ==
    << Step("run", "packages"),        \* mkdir /build
       Step("run", "packages"),        \* apk update
       Step("run", "packages"),        \* apk add dropbear ca-certificates gcc
       Step("run", "packages"),        \* apk --root /build --initdb add ...
       Step("run_in", "packages"),     \* cp /etc/apk/repositories
       Step("run", "account"),         \* mkdir -p /build/home/<user>
       Step("chroot_in", "account"),   \* addgroup && adduser && chpasswd
       Step("run_in", "account"),      \* doas.conf
       Step("run_in", "services"),     \* getty
       Step("run_in", "services"),     \* runlevels
       Step("run_in", "services"),     \* openrc softlevel
       Step("copy", "files"),          \* get_cmdline_key
       Step("copy", "files"),          \* cmdline_static
       Step("copy", "files"),          \* interfaces
       Step("copy", "files"),          \* motd
       Step("run_in", "files") >>      \* dropbear options

\* EphemeralContainer::setup of the block-image variant
SetupStepsImage ==
    << Step("run", "packages"),        \* apk update
       Step("run", "packages"),        \* apk add openrc sudo util-linux
       Step("run", "account"),         \* mkdir -p /home/<user>
       Step("run", "account"),         \* addgroup
       Step("run", "account"),         \* adduser
       Step("run", "account"),         \* chpasswd
       Step("run", "account"),         \* sudoers
       Step("run", "services"),        \* auto-login
       Step("run", "services"),        \* rc-update
       Step("run", "services") >>      \* openrc softlevel

SetupSteps(variant) ==
    IF variant = "initrd" THEN SetupStepsInitrd ELSE SetupStepsImage

\* build_initrd: its commands, in order
InitrdSteps ==
    << Step("run_in", "extract"),      \* ln -sf /sbin/init ./init
       Step("run_in", "extract"),      \* find | cpio > /initrd
       Step("unshare", "extract") >>   \* cp -r $MNT_PATH//initrd <initrd_path>

Issued(op, id) == [op |-> op, id |-> id]

\* a Drop that issues no teardown command
DropCommandsNone(c) == <<>>

\* impl Drop for EphemeralContainer: the commands it issues
DropCommands(c) == << Issued("rm", c.container_id) >>

\* a guard that never removes the image
ImageAfterGuardNever(file, armed, isDefused) == file

\* the scopeguard of to_image when it is dropped: the image file afterwards
ImageAfterGuard(file, armed, isDefused) ==
    IF armed /\ ~isDefused THEN NoFile ELSE file

\* a Drop that turns a failed teardown into the result of the build
ResultAfterDropEscalating(result, removed) ==
    IF removed THEN result ELSE "err_teardown"

\* impl Drop for EphemeralContainer, the match on the output of `buildah rm`:
\* a non-zero exit and a failure to spawn are logged with error!, the result
\* of the function that dropped the handle stays what it was
ResultAfterDrop(result, removed) == result

\* a gate that builds whether or not the initrd is there
InitrdGateAlwaysBuild(file) == "new"

\* init_images, `if initrd_path.try_exists()? { warn!(..) } else { build }`
InitrdGate(file) == IF file.exists THEN "kernel" ELSE "new"

\* an init_images that never prints the credentials
PrintCredentialsNever(count) == count

\* init_images, lines 467-471: println!("Default user is {}, password is {}")
PrintCredentials(count) == count + 1

GUEST_USERNAME == "codepot"
GUEST_PASSWORD == "a 16 character password"
IMAGE_USERNAME == "alpine"

\* init_images, line 459: the gate on the initrd path
InitImagesStart ==
    /\ bpc = "idle"
    /\ bvariant = "initrd"
    /\ bpc' = InitrdGate(initrdFile)
    /\ bresult' = IF InitrdGate(initrdFile) = "kernel" THEN "ok" ELSE bresult
    /\ UNCHANGED <<bvariant, bstdout, container, bstep, cmdLog, extRoots,
                   printed, initrdFile, kernelFile,
                   imageFile, guardArmed, defused, stagingDir, mountDir, mounted>>
    /\ BuildOnly

\* EphemeralContainer::new where `buildah from` created no build root:
\* it could not be spawned, or exited non-zero
NewFromFails ==
    /\ bpc = "new"
    /\ cmdLog' = Append(cmdLog, Issued("from", NoId))
    /\ bpc' = "done"
    /\ bresult' = "err_from"
    /\ UNCHANGED <<bvariant, bstdout, container, bstep, extRoots,
                   printed, initrdFile, kernelFile,
                   imageFile, guardArmed, defused, stagingDir, mountDir, mounted>>
    /\ BuildOnly

\* EphemeralContainer::new where `buildah from` exited with status 0 and
\* printed `out`
NewFromRuns ==
    /\ bpc = "new"
    /\ \E out \in RawOutputs \cup {InvalidUtf8} :
         /\ bstdout' = out
         /\ IF out = InvalidUtf8
            THEN /\ container' = NoContainer
                 /\ bpc' = "done" /\ bresult' = "err_utf8" /\ bstep' = bstep
            ELSE IF ~ValidId(Trim(out))
            THEN /\ container' = NoContainer
                 /\ bpc' = "done" /\ bresult' = "err_invalid_id" /\ bstep' = bstep
            ELSE /\ container' =
                       EphemeralContainer(Trim(out),
                           IF bvariant = "initrd" THEN GUEST_USERNAME ELSE IMAGE_USERNAME,
                           GUEST_PASSWORD)
                 /\ bpc' = "setup" /\ bresult' = bresult /\ bstep' = 1
    /\ cmdLog' = Append(cmdLog, Issued("from", NoId))
    /\ extRoots' = extRoots + 1
    /\ UNCHANGED <<bvariant, printed, initrdFile, kernelFile,
                   imageFile, guardArmed, defused, stagingDir, mountDir, mounted>>
    /\ BuildOnly

\* one command of setup() exiting with status 0; after the last one build()
\* returns the handle (init_images then prints the credentials)
SetupStepOk ==
    /\ bpc = "setup"
    /\ cmdLog' = Append(cmdLog, Issued(SetupSteps(bvariant)[bstep].op, container.container_id))
    /\ IF bstep < Len(SetupSteps(bvariant))
       THEN /\ bstep' = bstep + 1 /\ bpc' = "setup" /\ printed' = printed
       ELSE /\ bstep' = 1
            /\ bpc' = IF bvariant = "initrd" THEN "initrd" ELSE "create"
            /\ printed' = IF bvariant = "initrd" THEN PrintCredentials(printed)
                          ELSE printed
    /\ UNCHANGED <<bvariant, bstdout, container, extRoots, bresult,
                   initrdFile, kernelFile,
                   imageFile, guardArmed, defused, stagingDir, mountDir, mounted>>
    /\ BuildOnly

\* a setup() that goes on with its commands after one of them failed
QuestionMarkGoesOn(pc) == pc

\* the `?` on each command of setup(), lines 271-370: the error leaves
\* setup() and build(), whose local handle is dropped on the way out
QuestionMark(pc) == "drop"

\* one command of setup() failing: `?` leaves build(), dropping the handle
SetupStepFails ==
    /\ bpc = "setup"
    /\ cmdLog' = Append(cmdLog, Issued(SetupSteps(bvariant)[bstep].op, container.container_id))
    /\ bpc' = QuestionMark(bpc)
    /\ bresult' = "err_setup"
    /\ UNCHANGED <<bvariant, bstdout, container, bstep, extRoots,
                   printed, initrdFile, kernelFile,
                   imageFile, guardArmed, defused, stagingDir, mountDir, mounted>>
    /\ BuildOnly

\* add_file_contents failing at its temporary file, before `buildah copy`
SetupTempFileFails ==
    /\ bpc = "setup"
    /\ SetupSteps(bvariant)[bstep].op = "copy"
    /\ bpc' = "drop"
    /\ bresult' = "err_setup"
    /\ UNCHANGED <<bvariant, bstdout, container, bstep, cmdLog, extRoots,
                   printed, initrdFile, kernelFile,
                   imageFile, guardArmed, defused, stagingDir, mountDir, mounted>>
    /\ BuildOnly

\* one command of build_initrd exiting with status 0; the last one copies
\* the archive to the host path
InitrdStepOk ==
    /\ bpc = "initrd"
    /\ cmdLog' = Append(cmdLog, Issued(InitrdSteps[bstep].op, container.container_id))
    /\ IF bstep < Len(InitrdSteps)
       THEN /\ bstep' = bstep + 1 /\ bpc' = "initrd"
            /\ bresult' = bresult /\ initrdFile' = initrdFile
       ELSE /\ bstep' = bstep /\ bpc' = "drop"
            /\ bresult' = "ok" /\ initrdFile' = File(<<"cpio archive">>)
    /\ UNCHANGED <<bvariant, bstdout, container, extRoots,
                   printed, kernelFile,
                   imageFile, guardArmed, defused, stagingDir, mountDir, mounted>>
    /\ BuildOnly

\* one command of build_initrd failing; a failing `cp` may already have
\* created the file at the host path
InitrdStepFails ==
    /\ bpc = "initrd"
    /\ cmdLog' = Append(cmdLog, Issued(InitrdSteps[bstep].op, container.container_id))
    /\ bpc' = "drop"
    /\ bresult' = "err_initrd"
    /\ \E partial \in BOOLEAN :
         initrdFile' = IF partial /\ InitrdSteps[bstep].op = "unshare"
                       THEN File(<<"truncated cpio archive">>) ELSE initrdFile
    /\ UNCHANGED <<bvariant, bstdout, container, bstep, extRoots,
                   printed, kernelFile,
                   imageFile, guardArmed, defused, stagingDir, mountDir, mounted>>
    /\ BuildOnly

\* impl Drop for EphemeralContainer: `buildah rm <id>`; a failure is logged
DropContainer ==
    /\ bpc = "drop"
    /\ cmdLog' = cmdLog \o DropCommands(container)
    /\ container' = [container EXCEPT !.live = FALSE]
    /\ \E removed \in BOOLEAN :
         /\ extRoots' = IF removed /\ DropCommands(container) # <<>>
                        THEN extRoots - 1 ELSE extRoots
         /\ bresult' = ResultAfterDrop(bresult, removed)
    /\ bpc' = IF bvariant = "initrd" /\ bresult = "ok" THEN "kernel" ELSE "done"
    /\ UNCHANGED <<bvariant, bstdout, bstep,
                   printed, initrdFile, kernelFile,
                   imageFile, guardArmed, defused, stagingDir, mountDir, mounted>>
    /\ BuildOnly

\* init_images, lines 475-480: the kernel image is there already
KernelSkip ==
    /\ bpc = "kernel"
    /\ kernelFile.exists
    /\ bpc' = "done"
    /\ bresult' = "ok"
    /\ UNCHANGED <<bvariant, bstdout, container, bstep, cmdLog, extRoots,
                   printed, initrdFile, kernelFile,
                   imageFile, guardArmed, defused, stagingDir, mountDir, mounted>>
    /\ BuildOnly

\* init_images, lines 481-491: download, File::create, copy
KernelDownload ==
    /\ bpc = "kernel"
    /\ ~kernelFile.exists
    /\ bpc' = "done"
    /\ \E outcome \in {"download_failed", "create_failed", "copy_failed", "ok"} :
         /\ bresult' = IF outcome = "ok" THEN "ok" ELSE "err_kernel"
         /\ kernelFile' =
              CASE outcome = "ok" -> File(<<"vmlinux">>)
                [] outcome = "copy_failed" -> File(<<>>)
                [] OTHER -> kernelFile
    /\ UNCHANGED <<bvariant, bstdout, container, bstep, cmdLog, extRoots,
                   printed, initrdFile,
                   imageFile, guardArmed, defused, stagingDir, mountDir, mounted>>
    /\ BuildOnly

(***************************************************************************)
(* EphemeralContainer::to_image (src/src/build_image.rs).                  *)
(***************************************************************************)
\* the sub-commands of the single `sudo sh -c "a && b && ..."` command
SudoChain == <<"mkdir", "mount", "cp", "chown root", "chown user", "umount">>

\* the image is mounted after the first k sub-commands succeeded
MountedAfter(k) ==
    /\ \E i \in 1..k : SudoChain[i] = "mount"
    /\ ~ \E i \in 1..k : SudoChain[i] = "umount"

\* a guard that is armed before the file is known to be new
GuardArmedAlways(created) == TRUE

\* lines 175-176: `File::create_new(&image_path)...?` returns before
\* `guard(image, ..)` is evaluated, so the guard exists only on a new file
GuardArmedAfterCreate(created) == created

\* File::create_new(&image_path), and the guard armed on the new file; on
\* an error to_image returns at once
ToImageCreate ==
    /\ bpc = "create"
    /\ \E created \in BOOLEAN :
         IF imageFile.exists \/ ~created
         THEN /\ bpc' = "unwind" /\ bresult' = "err_create"
              /\ imageFile' = imageFile
              /\ guardArmed' = GuardArmedAfterCreate(FALSE)
         ELSE /\ bpc' = "zero" /\ bresult' = bresult
              /\ imageFile' = File(<<>>)
              /\ guardArmed' = GuardArmedAfterCreate(TRUE)
    /\ UNCHANGED <<bvariant, bstdout, container, bstep, cmdLog, extRoots,
                   printed, initrdFile, kernelFile, defused, stagingDir,
                   mountDir, mounted>>
    /\ BuildOnly

\* io::copy(&mut io::repeat(0).take(image_size), ..)?; image.flush()?
ToImageZeroFill ==
    /\ bpc = "zero"
    /\ \E written \in BOOLEAN :
         IF written
         THEN /\ bpc' = "mkfs" /\ bresult' = bresult
              /\ imageFile' = File(<<"zeros">>)
         ELSE /\ bpc' = "unwind" /\ bresult' = "err_zero_fill"
              /\ imageFile' = File(<<"some zeros">>)
    /\ UNCHANGED <<bvariant, bstdout, container, bstep, cmdLog, extRoots,
                   printed, initrdFile, kernelFile, guardArmed, defused,
                   stagingDir, mountDir, mounted>>
    /\ BuildOnly

\* mkfs.ext4 <image_path>
ToImageMkfs ==
    /\ bpc = "mkfs"
    /\ cmdLog' = Append(cmdLog, Issued("mkfs.ext4", NoId))
    /\ \E formatted \in BOOLEAN :
         IF formatted
         THEN /\ bpc' = "tempdir" /\ bresult' = bresult
              /\ imageFile' = File(<<"ext4">>)
         ELSE /\ bpc' = "unwind" /\ bresult' = "err_mkfs"
              /\ imageFile' = imageFile
    /\ UNCHANGED <<bvariant, bstdout, container, bstep, extRoots, printed,
                   initrdFile, kernelFile, guardArmed, defused, stagingDir,
                   mountDir, mounted>>
    /\ BuildOnly

\* TempDir::new()?
ToImageTempDir ==
    /\ bpc = "tempdir"
    /\ \E made \in BOOLEAN :
         IF made
         THEN /\ bpc' = "unshare" /\ bresult' = bresult /\ stagingDir' = TRUE
         ELSE /\ bpc' = "unwind" /\ bresult' = "err_tempdir" /\ stagingDir' = stagingDir
    /\ UNCHANGED <<bvariant, bstdout, container, bstep, cmdLog, extRoots,
                   printed, initrdFile, kernelFile, imageFile, guardArmed,
                   defused, mountDir, mounted>>
    /\ BuildOnly

\* buildah unshare --mount MNT_PATH=<id> sh -c "cp -r $MNT_PATH/* <staging>"
ToImageUnshare ==
    /\ bpc = "unshare"
    /\ cmdLog' = Append(cmdLog, Issued("unshare", container.container_id))
    /\ \E copied \in BOOLEAN :
         IF copied
         THEN /\ bpc' = "sudo" /\ bresult' = bresult
         ELSE /\ bpc' = "unwind" /\ bresult' = "err_unshare"
    /\ UNCHANGED <<bvariant, bstdout, container, bstep, extRoots, printed,
                   initrdFile, kernelFile, imageFile, guardArmed, defused,
                   stagingDir, mountDir, mounted>>
    /\ BuildOnly

\* the composed privileged command: the first k sub-commands succeed
\* (k = 0 also stands for sudo not running at all); with all of them done
\* the completion marker is set and to_image returns Ok
ToImageSudo ==
    /\ bpc = "sudo"
    /\ cmdLog' = Append(cmdLog, Issued("sudo", NoId))
    /\ \E k \in 0..Len(SudoChain) :
         /\ mountDir' = (mountDir \/ \E i \in 1..k : SudoChain[i] = "mkdir")
         /\ mounted' = MountedAfter(k)
         /\ imageFile' = IF \E i \in 1..k : SudoChain[i] = "cp"
                         THEN File(<<"ext4", "root filesystem">>) ELSE imageFile
         /\ defused' = (k = Len(SudoChain))
         /\ bresult' = IF k = Len(SudoChain) THEN "ok" ELSE "err_sudo"
    /\ bpc' = "unwind"
    /\ UNCHANGED <<bvariant, bstdout, container, bstep, extRoots, printed,
                   initrdFile, kernelFile, guardArmed, stagingDir>>
    /\ BuildOnly

\* to_image returns: its locals are dropped in reverse order of declaration,
\* the TempDir first, then the guard on the image file
ToImageUnwind ==
    /\ bpc = "unwind"
    /\ stagingDir' = FALSE
    /\ imageFile' = ImageAfterGuard(imageFile, guardArmed, defused)
    /\ guardArmed' = FALSE
    /\ bpc' = "drop"
    /\ UNCHANGED <<bvariant, bstdout, container, bstep, cmdLog, extRoots,
                   bresult, printed, initrdFile, kernelFile, defused, mountDir,
                   mounted>>
    /\ BuildOnly

BuildNext ==
    \/ InitImagesStart
    \/ NewFromFails
    \/ NewFromRuns
    \/ SetupStepOk
    \/ SetupStepFails
    \/ SetupTempFileFails
    \/ InitrdStepOk
    \/ InitrdStepFails
    \/ DropContainer
    \/ KernelSkip
    \/ KernelDownload

ImageNext ==
    \/ NewFromFails
    \/ NewFromRuns
    \/ SetupStepOk
    \/ SetupStepFails
    \/ ToImageCreate
    \/ ToImageZeroFill
    \/ ToImageMkfs
    \/ ToImageTempDir
    \/ ToImageUnshare
    \/ ToImageSudo
    \/ ToImageUnwind
    \/ DropContainer

(***************************************************************************)
(* BootArgs::arg (src/src/machine/config.rs).  A string is the sequence of *)
(* its characters.                                                         *)
(***************************************************************************)
SP == " "
EQ == "="
DQ == "\""
BootChars == {"a", SP, EQ, DQ}
PATTERN == {SP, EQ}

\* str::contains(PATTERN)
Contains(str, pattern) == \E i \in DOMAIN str : str[i] \in pattern

\* "console=ttyS0 reboot=k panic=1 pci=off"
BASE_BOOT_ARGS ==
    <<"c", "o", "n", "s", "o", "l", "e", EQ, "t", "t",
       "y", "S", "0", SP, "r", "e", "b", "o", "o", "t",
       EQ, "k", SP, "p", "a", "n", "i", "c", EQ, "1",
       SP, "p", "c", "i", EQ, "o", "f", "f" >>

\* BootArgs::arg quoting on a space only
ArgQuoteOnSpaceOnly(self, key, value) ==
    LET k == IF Contains(key, {SP}) THEN <<DQ>> \o key \o <<DQ>> ELSE key
        v == IF Contains(value, {SP}) THEN <<DQ>> \o value \o <<DQ>> ELSE value
    IN  self \o <<SP>> \o k \o <<EQ>> \o v

\* BootArgs::arg(&mut self, key, value): the string after the pushes
Arg(self, key, value) ==
    LET s1 == Append(self, SP)
        s2 == IF Contains(key, PATTERN) THEN Append(s1, DQ) ELSE s1
        s3 == s2 \o key
        s4 == IF Contains(key, PATTERN) THEN Append(s3, DQ) ELSE s3
        s5 == Append(s4, EQ)
        s6 == IF Contains(value, PATTERN) THEN Append(s5, DQ) ELSE s5
        s7 == s6 \o value
        s8 == IF Contains(value, PATTERN) THEN Append(s7, DQ) ELSE s7
    IN  s8

(***************************************************************************)
(* The reader of the command line (the guest's boot script): it splits an  *)
(* argument on its first `=` outside double quotes and unquotes both       *)
(* halves.                                                                 *)
(***************************************************************************)
\* is position i of str outside double quotes?
RECURSIVE QuotesBefore(_, _)
QuotesBefore(str, i) ==
    IF i <= 1 THEN 0
    ELSE QuotesBefore(str, i - 1) + (IF str[i - 1] = DQ THEN 1 ELSE 0)
Unquoted(str, i) == QuotesBefore(str, i) % 2 = 0

\* index of the first unquoted `=`, or 0
SplitIndex(str) ==
    LET hits == { i \in DOMAIN str : str[i] = EQ /\ Unquoted(str, i) }
    IN  IF hits = {} THEN 0 ELSE CHOOSE i \in hits : \A j \in hits : i <= j

\* strip one pair of surrounding double quotes
Unquote(str) ==
    IF Len(str) >= 2 /\ str[1] = DQ /\ str[Len(str)] = DQ
    THEN SubSeq(str, 2, Len(str) - 1) ELSE str

ParseFailed == [key |-> <<"no unquoted =">>, value |-> <<"no unquoted =">>]

\* the key and the value read back from one serialized argument
ParseArg(str) ==
    LET i == SplitIndex(str)
    IN  IF i = 0 THEN ParseFailed
        ELSE [ key   |-> Unquote(SubSeq(str, 1, i - 1)),
               value |-> Unquote(SubSeq(str, i + 1, Len(str))) ]

BootStrings == Strings(BootChars, MaxStrLen)

\* boot_args.arg(key, value)
BootArg ==
    /\ apc = "start"
    /\ \E key \in BootStrings, value \in BootStrings :
         /\ bootArgs' = Arg(bootArgs, key, value)
         /\ argKey' = key
         /\ argValue' = value
    /\ argBase' = bootArgs
    /\ apc' = "done"
    /\ BootOnly

BootNext == BootArg

(***************************************************************************)
(* main, the init subcommand (src/src/main.rs, lines 114-148): init_images,*)
(* then, behind the gate on the config path, init_networking and           *)
(* Config::write.  init_images is one step here; init_networking and       *)
(* Config::write run through the actions above.                            *)
(***************************************************************************)
\* init_images(..): the results it can return and the files it leaves,
\* `built` telling whether it started a build
InitImagesOutcomes(initrd, kernel) ==
    LET afterInitrd ==
            IF InitrdGate(initrd) = "kernel"
            THEN { [result |-> "ok", initrd |-> initrd, built |-> FALSE] }
            ELSE { [result |-> "ok", initrd |-> File(<<"cpio archive">>), built |-> TRUE],
                   [result |-> "err_build", initrd |-> initrd, built |-> TRUE],
                   [result |-> "err_build", initrd |-> File(<<"truncated cpio archive">>),
                    built |-> TRUE] }
        afterKernel(o) ==
            IF o.result # "ok"
            THEN { [result |-> o.result, initrd |-> o.initrd, kernel |-> kernel,
                    built |-> o.built] }
            ELSE IF kernel.exists
            THEN { [result |-> "ok", initrd |-> o.initrd, kernel |-> kernel,
                    built |-> o.built] }
            ELSE { [result |-> "ok", initrd |-> o.initrd,
                    kernel |-> File(<<"vmlinux">>), built |-> o.built],
                   [result |-> "err_kernel", initrd |-> o.initrd,
                    kernel |-> File(<<>>), built |-> o.built],
                   [result |-> "err_kernel", initrd |-> o.initrd,
                    kernel |-> kernel, built |-> o.built] }
    IN  UNION { afterKernel(o) : o \in afterInitrd }

\* a gate that provisions whether or not the config is there
ConfigGateAlways(file) == TRUE

\* if !config_path.try_exists()? { provision and write } else { warn!(..) }
ConfigGate(file) == ~file.exists

\* init_images(..).context("Could not initialize images")?
MainInitImages ==
    /\ mpc = "images"
    /\ \E o \in InitImagesOutcomes(initrdFile, kernelFile) :
         /\ initrdFile' = o.initrd
         /\ kernelFile' = o.kernel
         /\ bresult' = o.result
         /\ cmdLog' = IF o.built THEN Append(cmdLog, Issued("from", NoId)) ELSE cmdLog
         /\ mpc' = IF o.result = "ok" THEN "gate" ELSE "err"
    /\ UNCHANGED <<bpc, bvariant, bstdout, container, bstep, extRoots, printed,
                   imageFile, guardArmed, defused, stagingDir, mountDir, mounted>>
    /\ UNCHANGED <<netVars, cfgVars, bootVars, largs, launch, procs>>

\* the gate on the config path: init_networking is called, or skipped with
\* a warning and main returns Ok
MainConfigGate ==
    /\ mpc = "gate"
    /\ IF ConfigGate(cfgFile)
       THEN mpc' = "network" /\ npc' = "idle"
       ELSE mpc' = "ok" /\ npc' = npc
    /\ UNCHANGED <<nargs, nhostAddr, ifs, nidx, nresult, ncmds, host, passes,
                   completed>>
    /\ UNCHANGED <<cfgVars, buildVars, bootVars, largs, launch, procs>>

\* a main that writes the record whatever init_networking returned
InitNetworkingOkAlways(result) == TRUE

\* init_networking(..).context("Could not setup networking")?
InitNetworkingOk(result) == result = "ok"

\* init_networking has returned: `?` on its error, else Config::new(..) of
\* what it returned and .write(&config_path)
MainWriteConfig ==
    /\ mpc = "network"
    /\ npc = "done"
    /\ IF InitNetworkingOk(nresult)
       THEN /\ cfg' = Config(nargs.max_parallel_vm_count, nargs.net,
                             nargs.host_if_name, nhostAddr, ifs)
            /\ cpc' = "start"
            /\ mpc' = "write"
       ELSE /\ mpc' = IF nresult = "panic" THEN "panic" ELSE "err"
            /\ UNCHANGED <<cfg, cpc>>
    /\ UNCHANGED <<cfgFile, cresult>>
    /\ UNCHANGED <<netVars, buildVars, bootVars, largs, launch, procs>>

\* Config::write has returned: `?` on its error, else Ok(())
MainInitReturn ==
    /\ mpc = "write"
    /\ cpc = "done"
    /\ mpc' = IF cresult = "ok" THEN "ok" ELSE "err"
    /\ UNCHANGED <<netVars, cfgVars, buildVars, bootVars, largs, launch, procs>>

InitFlowNext ==
    \/ MainInitImages
    \/ MainConfigGate
    \/ NetCall
    \/ NetNameLoop
    \/ NetCmdRuns
    \/ NetCmdNotRun
    \/ MainWriteConfig
    \/ CfgCreateNew
    \/ CfgCreateFails
    \/ CfgWriteAll
    \/ CfgWriteFails
    \/ MainInitReturn

(***************************************************************************)
(* MachineConfigurator::new (src/src/machine/config.rs) and the run        *)
(* subcommand of main (src/src/main.rs, lines 149-169).                    *)
(***************************************************************************)
SSH_KEY_KEY == <<"s", "s", "h", "_", "k", "e", "y">>
STATIC_IP_KEY == <<"s", "t", "a", "t", "i", "c", "_", "i", "p">>
GATEWAY_IP_KEY ==
    <<"g", "a", "t", "e", "w", "a", "y", "_", "i", "p">>

DecimalDigits == <<"0", "1", "2", "3", "4", "5", "6", "7", "8", "9">>

\* the decimal numeral of n, as Display writes it
RECURSIVE Digits(_)
Digits(n) ==
    IF n < 10 THEN <<DecimalDigits[n + 1]>>
    ELSE Digits(n \div 10) \o <<DecimalDigits[(n % 10) + 1]>>

\* Ipv4Addr::to_string of the address 10.0.0.a
Ipv4AddrToString(a) == <<"1", "0", ".", "0", ".", "0", ".">> \o Digits(a)

\* Ipv4Net::to_string: address, '/', prefix length
Ipv4NetToString(net) ==
    Ipv4AddrToString(net.addr) \o <<"/">> \o Digits(net.prefix_len)

\* the three arguments appended with the gateway first
NewBootArgsGatewayFirst(a) ==
    Arg(Arg(Arg(BASE_BOOT_ARGS,
                GATEWAY_IP_KEY, Ipv4AddrToString(a.host_address)),
            SSH_KEY_KEY, a.pub_ssh_key),
        STATIC_IP_KEY, Ipv4NetToString(a.ip_address))

\* MachineConfigurator::new, lines 172-176: boot_args
NewBootArgs(a) ==
    Arg(Arg(Arg(BASE_BOOT_ARGS,
                SSH_KEY_KEY, a.pub_ssh_key),
            STATIC_IP_KEY, Ipv4NetToString(a.ip_address)),
        GATEWAY_IP_KEY, Ipv4AddrToString(a.host_address))

\* MachineConfigurator::new(..): the VmmConfig
MachineConfiguratorNew(a) ==
    [ built |-> TRUE,
      block_devices |->
          << [ drive_id |-> "rootfs", is_root_device |-> TRUE,
               is_read_only |-> FALSE, path_on_host |-> a.rootfs_image_path ] >>,
      boot_source |->
          [ kernel_image_path |-> a.kernel_image_path,
            boot_args |-> NewBootArgs(a),
            initrd_path |-> "None" ],
      machine_config |->
          [ vcpu_count |-> a.vcpu_count, mem_size_mib |-> a.mem_size_mib,
            smt |-> FALSE, track_dirty_pages |-> FALSE ],
      net_devices |->
          << [ iface_id |-> "eth0", host_dev_name |-> a.host_dev_name,
               guest_mac |-> a.guest_mac ] >> ]

\* public keys given to MachineConfigurator::new
KEY_FOO == <<"f", "o", "o">>
KEY_AB_CD == <<"a", "b", SP, "c", "d">>
SshKeys == BootStrings \cup {KEY_FOO, KEY_AB_CD}

\* the arguments of a call of MachineConfigurator::new
LaunchArgs ==
    [ kernel_image_path : {"vm/kernel.img"},
      rootfs_image_path : {"vm/rootfs.ext4"},
      vcpu_count        : {2},
      mem_size_mib      : {512},
      host_address      : {1, 6, 254},
      host_dev_name     : IfNames,
      guest_mac         : Range(MacAddresses),
      ip_address        : {Ipv4Net(2, 24), Ipv4Net(2, 29), Ipv4Net(105, 32)},
      pub_ssh_key       : SshKeys ]

\* MachineConfigurator::new(..)
NewLaunch ==
    /\ mpc = "new"
    /\ launch' = MachineConfiguratorNew(largs)
    /\ mpc' = "built"
    /\ UNCHANGED <<largs, procs>>
    /\ UNCHANGED <<netVars, cfgVars, buildVars, bootVars>>

LaunchNext == NewLaunch

\* serde_json::from_str(&contents): the record of a complete document, an
\* error for anything else (an empty or truncated file)
FromJson(content) ==
    IF Len(content) = 7 /\ content[1] = "{" /\ content[7] = "}"
    THEN [ ok |-> TRUE,
           config |-> Config(content[2].value, content[3].value, content[4].value,
                             content[5].value, content[6].value) ]
    ELSE [ ok |-> FALSE, config |-> <<>> ]

\* the call of main with the address of the interface passed as gateway
RunLaunchArgsOwnAddressAsGateway(config) ==
    [ kernel_image_path |-> "vm/kernel.img",
      rootfs_image_path |-> "vm/rootfs.ext4",
      vcpu_count        |-> 2,
      mem_size_mib      |-> 512,
      host_address      |-> config.interfaces[1].ip_address.addr,
      host_dev_name     |-> config.interfaces[1].if_name,
      guest_mac         |-> config.interfaces[1].mac_address,
      ip_address        |-> config.interfaces[1].ip_address,
      pub_ssh_key       |-> KEY_FOO ]

\* main, lines 156-167: the arguments of MachineConfigurator::new, taken
\* from config.interfaces[0] and config.host_address
RunLaunchArgs(config) ==
    [ kernel_image_path |-> "vm/kernel.img",
      rootfs_image_path |-> "vm/rootfs.ext4",
      vcpu_count        |-> 2,
      mem_size_mib      |-> 512,
      host_address      |-> config.host_address.addr,
      host_dev_name     |-> config.interfaces[1].if_name,
      guest_mac         |-> config.interfaces[1].mac_address,
      ip_address        |-> config.interfaces[1].ip_address,
      pub_ssh_key       |-> KEY_FOO ]

\* the files at config_path before `codepot run`: none, a complete record,
\* or the truncated one a failed write left
PersistedFiles ==
    {NoFile} \cup UNION { { File(SubSeq(ToJson(c), 1, k)) : k \in 0..Len(ToJson(c)) } :
                            c \in WritableConfigs }

\* a gate that does not look at the config path
InitedIgnoringConfig(kernel, rootfs, config) == kernel.exists /\ rootfs.exists

\* for p in &[&kernel_image_path, &rootfs_image_path, &config_path] {
\*     ensure!(p.try_exists()?, "Not inited yet, ..") }
Inited(kernel, rootfs, config) ==
    kernel.exists /\ rootfs.exists /\ config.exists

\* the gate of the run flow on the three paths
RunFilesGate ==
    /\ mpc = "run"
    /\ mpc' = IF Inited(kernelFile, imageFile, cfgFile) THEN "read" ELSE "err"
    /\ UNCHANGED <<largs, launch, procs>>
    /\ UNCHANGED <<netVars, cfgVars, buildVars, bootVars>>

\* Config::read(&config_path)?
RunReadConfig ==
    /\ mpc = "read"
    /\ IF FromJson(cfgFile.content).ok
       THEN cfg' = FromJson(cfgFile.content).config /\ mpc' = "configure"
       ELSE cfg' = cfg /\ mpc' = "err"
    /\ UNCHANGED <<cpc, cfgFile, cresult, largs, launch, procs>>
    /\ UNCHANGED <<netVars, buildVars, bootVars>>

\* &config.interfaces[0] (a panic on an empty list), MachineConfigurator::new
RunConfigure ==
    /\ mpc = "configure"
    /\ IF cfg.interfaces = <<>>
       THEN mpc' = "panic" /\ UNCHANGED <<largs, launch, procs>>
       ELSE /\ largs' = RunLaunchArgs(cfg)
            /\ launch' = MachineConfiguratorNew(RunLaunchArgs(cfg))
            /\ mpc' = "store"
    /\ UNCHANGED <<netVars, cfgVars, buildVars, bootVars, procs>>

\* configurator.store()?: tempfile()?, write_all(..)?; the returned File is
\* dropped at once
RunStore ==
    /\ mpc = "store"
    /\ mpc' \in {"ok", "err"}
    /\ UNCHANGED <<largs, launch, procs>>
    /\ UNCHANGED <<netVars, cfgVars, buildVars, bootVars>>

RunNext ==
    \/ RunFilesGate
    \/ RunReadConfig
    \/ RunConfigure
    \/ RunStore

(***************************************************************************)
(* Two `codepot init` processes on one host, each past init_images: the    *)
(* arm of main of lines 132-147, with init_networking and Config::write,   *)
(* interleaved command by command.  They share the host's network state    *)
(* and the file at config_path.                                            *)
(***************************************************************************)
Procs == {1, 2}
RaceBlocks == { Ipv4Net(0, 29), Ipv4Net(0, 30) }
RaceArgs == [ max_parallel_vm_count : 0..MaxSlots,
              host_if_name : HostIfNames,
              net : RaceBlocks ]

\* a process about to evaluate the gate of line 132
Proc(args) ==
    [ pc |-> "gate", args |-> args, host_address |-> NoNet, ifs |-> <<>>,
      idx |-> 0, result |-> "none" ]

\* Config::new(max_parallel_vm_count, net, host_interface, host_address,
\* interfaces) of the process
ProcConfig(q) ==
    Config(q.args.max_parallel_vm_count, q.args.net, q.args.host_if_name,
           q.host_address, q.ifs)

ProcCommands(q) == PassCommands(q.args, q.host_address, q.ifs)

RaceOnly ==
    UNCHANGED <<npc, nargs, nhostAddr, ifs, nidx, nresult, ncmds, passes,
                completed, cpc, cfg, cresult, buildVars, bootVars, mpc, largs,
                launch>>

\* if !config_path.try_exists()? { .. } else { warn!(..) }
RaceGate(p) ==
    /\ procs[p].pc = "gate"
    /\ procs' = [procs EXCEPT ![p].pc = IF ConfigGate(cfgFile) THEN "call" ELSE "done",
                              ![p].result = IF ConfigGate(cfgFile) THEN "none"
                                            ELSE "skipped"]
    /\ UNCHANGED <<host, cfgFile>>
    /\ RaceOnly

\* init_networking, lines 73-91
RaceNetCall(p) ==
    /\ procs[p].pc = "call"
    /\ LET a == procs[p].args IN
       procs' =
         IF ~CapacityOk(a.max_parallel_vm_count, a.net)
         THEN [procs EXCEPT ![p].pc = "done", ![p].result = "capacity_error"]
         ELSE IF HostsCount(a.net) = 0
         THEN [procs EXCEPT ![p].pc = "done", ![p].result = "invalid_hostmask"]
         ELSE IF Unimplemented(a.max_parallel_vm_count)
         THEN [procs EXCEPT ![p].pc = "done", ![p].result = "panic"]
         ELSE [procs EXCEPT ![p].pc = "loop",
                            ![p].host_address = HostAddress(a.net)]
    /\ UNCHANGED <<host, cfgFile>>
    /\ RaceOnly

\* the loop of lines 94-106
RaceNameLoop(p) ==
    /\ procs[p].pc = "loop"
    /\ LET a == procs[p].args IN
       \E draw \in [1..a.max_parallel_vm_count -> IfNames] :
         LET s == Range(draw) IN
         IF BatchComplete(s, a.max_parallel_vm_count)
         THEN \E order \in Orders(s) :
                procs' = [procs EXCEPT ![p].ifs = ZipInterfaces(order, a.net),
                                       ![p].pc = "cmds", ![p].idx = 1]
         ELSE UNCHANGED procs
    /\ UNCHANGED <<host, cfgFile>>
    /\ RaceOnly

\* run_sudo(cmd)? of the pass of the process, sudo having run the command:
\* after the last command init_networking returns Ok and main goes on to
\* Config::write
RaceCmdRuns(p) ==
    /\ procs[p].pc = "cmds"
    /\ LET q == procs[p]
           c == ProcCommands(q)[q.idx]
       IN  /\ host' = CmdEffect(c, host)
           /\ procs' =
                IF RunSudo(CmdSucceeds(c, host)) = "err"
                THEN [procs EXCEPT ![p].pc = "done", ![p].result = "cmd_error"]
                ELSE IF q.idx = Len(ProcCommands(q))
                THEN [procs EXCEPT ![p].pc = "create"]
                ELSE [procs EXCEPT ![p].idx = q.idx + 1]
    /\ UNCHANGED cfgFile
    /\ RaceOnly

\* run_sudo(cmd)? where the command was not run
RaceCmdNotRun(p) ==
    /\ procs[p].pc = "cmds"
    /\ procs' = [procs EXCEPT ![p].pc = "done", ![p].result = "cmd_error"]
    /\ UNCHANGED <<host, cfgFile>>
    /\ RaceOnly

\* Config::write: File::create_new(path)?
RaceCreateNew(p) ==
    /\ procs[p].pc = "create"
    /\ cfgFile' = CreateNew(cfgFile).file
    /\ procs' = IF CreateNew(cfgFile).ok
                THEN [procs EXCEPT ![p].pc = "write"]
                ELSE [procs EXCEPT ![p].pc = "done", ![p].result = "err_exists"]
    /\ UNCHANGED host
    /\ RaceOnly

\* Config::write: File::create_new(path)? failing for another reason
RaceCreateFails(p) ==
    /\ procs[p].pc = "create"
    /\ ~cfgFile.exists
    /\ procs' = [procs EXCEPT ![p].pc = "done", ![p].result = "err_create"]
    /\ UNCHANGED <<host, cfgFile>>
    /\ RaceOnly

\* Config::write: file.write_all(contents)? writing everything
RaceWriteAll(p) ==
    /\ procs[p].pc = "write"
    /\ cfgFile' = File(ToJson(ProcConfig(procs[p])))
    /\ procs' = [procs EXCEPT ![p].pc = "done", ![p].result = "ok"]
    /\ UNCHANGED host
    /\ RaceOnly

\* Config::write: file.write_all(contents)? failing after k tokens
RaceWriteFails(p) ==
    /\ procs[p].pc = "write"
    /\ \E k \in 0..(Len(ToJson(ProcConfig(procs[p]))) - 1) :
          cfgFile' = File(SubSeq(ToJson(ProcConfig(procs[p])), 1, k))
    /\ procs' = [procs EXCEPT ![p].pc = "done", ![p].result = "err_write"]
    /\ UNCHANGED host
    /\ RaceOnly

RaceNext ==
    \/ \E p \in Procs : RaceGate(p)
    \/ \E p \in Procs : RaceNetCall(p)
    \/ \E p \in Procs : RaceNameLoop(p)
    \/ \E p \in Procs : RaceCmdRuns(p)
    \/ \E p \in Procs : RaceCmdNotRun(p)
    \/ \E p \in Procs : RaceCreateNew(p)
    \/ \E p \in Procs : RaceCreateFails(p)
    \/ \E p \in Procs : RaceWriteAll(p)
    \/ \E p \in Procs : RaceWriteFails(p)

(***************************************************************************)
(* The specifications: one per component, the others at rest.              *)
(***************************************************************************)
\* `codepot run` is about to run
RunInit ==
    /\ npc = "off" /\ nargs = <<>> /\ nhostAddr = NoNet /\ ifs = <<>> /\ nidx = 0
    /\ nresult = "none" /\ ncmds = <<>> /\ host = CleanHost /\ passes = 0
    /\ completed = 0
    /\ cpc = "off" /\ cfg = <<>>
    /\ cfgFile \in PersistedFiles
    /\ cresult = "none"
    /\ bpc = "off" /\ bvariant = "none" /\ bstdout = <<>> /\ container = NoContainer
    /\ bstep = 0 /\ cmdLog = <<>> /\ extRoots = 0 /\ bresult = "none"
    /\ printed = 0 /\ initrdFile = NoFile
    /\ kernelFile \in {NoFile, File(<<"vmlinux">>)}
    /\ imageFile \in {NoFile, File(<<"ext4", "root filesystem">>)}
    /\ guardArmed = FALSE /\ defused = FALSE
    /\ stagingDir = FALSE /\ mountDir = FALSE /\ mounted = FALSE
    /\ apc = "off" /\ bootArgs = <<>> /\ argKey = <<>> /\ argValue = <<>>
    /\ argBase = <<>>
    /\ mpc = "run" /\ largs = <<>> /\ launch = NoLaunch /\ procs = <<>>

\* MachineConfigurator::new is about to be called
LaunchInit ==
    /\ npc = "off" /\ nargs = <<>> /\ nhostAddr = NoNet /\ ifs = <<>> /\ nidx = 0
    /\ nresult = "none" /\ ncmds = <<>> /\ host = CleanHost /\ passes = 0
    /\ completed = 0
    /\ cpc = "off" /\ cfg = <<>> /\ cfgFile = NoFile /\ cresult = "none"
    /\ bpc = "off" /\ bvariant = "none" /\ bstdout = <<>> /\ container = NoContainer
    /\ bstep = 0 /\ cmdLog = <<>> /\ extRoots = 0 /\ bresult = "none"
    /\ printed = 0 /\ initrdFile = NoFile /\ kernelFile = NoFile
    /\ imageFile = NoFile /\ guardArmed = FALSE /\ defused = FALSE
    /\ stagingDir = FALSE /\ mountDir = FALSE /\ mounted = FALSE
    /\ apc = "off" /\ bootArgs = <<>> /\ argKey = <<>> /\ argValue = <<>>
    /\ argBase = <<>>
    /\ mpc = "new"
    /\ largs \in LaunchArgs
    /\ launch = NoLaunch /\ procs = <<>>

\* `codepot init` is about to run
InitFlowInit ==
    /\ npc = "off"
    /\ nargs \in [ max_parallel_vm_count : 0..MaxSlots,
                   host_if_name : HostIfNames,
                   net : Blocks ]
    /\ nhostAddr = NoNet /\ ifs = <<>> /\ nidx = 0
    /\ nresult = "none" /\ ncmds = <<>> /\ host \in InitialHosts /\ passes = 0
    /\ completed = 0
    /\ cpc = "off" /\ cfg = <<>>
    /\ cfgFile \in {NoFile, File(OldContent)}
    /\ cresult = "none"
    /\ bpc = "off" /\ bvariant = "initrd" /\ bstdout = <<>> /\ container = NoContainer
    /\ bstep = 0 /\ cmdLog = <<>> /\ extRoots = 0 /\ bresult = "none"
    /\ printed = 0
    /\ initrdFile \in {NoFile, File(<<"an earlier initrd">>)}
    /\ kernelFile \in {NoFile, File(<<"an earlier kernel">>)}
    /\ imageFile = NoFile /\ guardArmed = FALSE /\ defused = FALSE
    /\ stagingDir = FALSE /\ mountDir = FALSE /\ mounted = FALSE
    /\ apc = "off" /\ bootArgs = <<>> /\ argKey = <<>> /\ argValue = <<>>
    /\ argBase = <<>>
    /\ mpc = "images" /\ largs = <<>> /\ launch = NoLaunch /\ procs = <<>>

\* init_networking is about to be called on a clean host
NetInit ==
    /\ npc = "idle"
    /\ nargs \in [ max_parallel_vm_count : 0..MaxSlots,
                   host_if_name : HostIfNames,
                   net : Blocks ]
    /\ nhostAddr = NoNet /\ ifs = <<>> /\ nidx = 0
    /\ nresult = "none" /\ ncmds = <<>> /\ host \in InitialHosts /\ passes = 0
    /\ completed = 0
    /\ cpc = "off" /\ cfg = <<>> /\ cfgFile = NoFile /\ cresult = "none"
    /\ bpc = "off" /\ bvariant = "none" /\ bstdout = <<>> /\ container = NoContainer
    /\ bstep = 0 /\ cmdLog = <<>> /\ extRoots = 0 /\ bresult = "none"
    /\ printed = 0 /\ initrdFile = NoFile /\ kernelFile = NoFile
    /\ imageFile = NoFile /\ guardArmed = FALSE /\ defused = FALSE
    /\ stagingDir = FALSE /\ mountDir = FALSE /\ mounted = FALSE
    /\ apc = "off" /\ bootArgs = <<>> /\ argKey = <<>> /\ argValue = <<>>
    /\ argBase = <<>>
    /\ mpc = "off" /\ largs = <<>> /\ launch = NoLaunch /\ procs = <<>>

\* Config::write is about to be called
CfgInit ==
    /\ npc = "off" /\ nargs = <<>> /\ nhostAddr = NoNet /\ ifs = <<>> /\ nidx = 0
    /\ nresult = "none" /\ ncmds = <<>> /\ host = CleanHost /\ passes = 0
    /\ completed = 0
    /\ cpc = "start"
    /\ cfg \in WritableConfigs
    /\ cfgFile \in {NoFile, File(OldContent)}
    /\ cresult = "none"
    /\ bpc = "off" /\ bvariant = "none" /\ bstdout = <<>> /\ container = NoContainer
    /\ bstep = 0 /\ cmdLog = <<>> /\ extRoots = 0 /\ bresult = "none"
    /\ printed = 0 /\ initrdFile = NoFile /\ kernelFile = NoFile
    /\ imageFile = NoFile /\ guardArmed = FALSE /\ defused = FALSE
    /\ stagingDir = FALSE /\ mountDir = FALSE /\ mounted = FALSE
    /\ apc = "off" /\ bootArgs = <<>> /\ argKey = <<>> /\ argValue = <<>>
    /\ argBase = <<>>
    /\ mpc = "off" /\ largs = <<>> /\ launch = NoLaunch /\ procs = <<>>

\* init_images is about to be called
BuildInit ==
    /\ npc = "off" /\ nargs = <<>> /\ nhostAddr = NoNet /\ ifs = <<>> /\ nidx = 0
    /\ nresult = "none" /\ ncmds = <<>> /\ host = CleanHost /\ passes = 0
    /\ completed = 0
    /\ cpc = "off" /\ cfg = <<>> /\ cfgFile = NoFile /\ cresult = "none"
    /\ bpc = "idle" /\ bvariant = "initrd" /\ bstdout = <<>> /\ container = NoContainer
    /\ bstep = 0 /\ cmdLog = <<>> /\ extRoots = 0 /\ bresult = "none"
    /\ printed = 0
    /\ initrdFile \in {NoFile, File(<<"an earlier initrd">>)}
    /\ kernelFile \in {NoFile, File(<<"an earlier kernel">>)}
    /\ imageFile = NoFile /\ guardArmed = FALSE /\ defused = FALSE
    /\ stagingDir = FALSE /\ mountDir = FALSE /\ mounted = FALSE
    /\ apc = "off" /\ bootArgs = <<>> /\ argKey = <<>> /\ argValue = <<>>
    /\ argBase = <<>>
    /\ mpc = "off" /\ largs = <<>> /\ launch = NoLaunch /\ procs = <<>>

\* EphemeralContainer::build()?.to_image(..) is about to be called
ImageInit ==
    /\ npc = "off" /\ nargs = <<>> /\ nhostAddr = NoNet /\ ifs = <<>> /\ nidx = 0
    /\ nresult = "none" /\ ncmds = <<>> /\ host = CleanHost /\ passes = 0
    /\ completed = 0
    /\ cpc = "off" /\ cfg = <<>> /\ cfgFile = NoFile /\ cresult = "none"
    /\ bpc = "new" /\ bvariant = "image" /\ bstdout = <<>> /\ container = NoContainer
    /\ bstep = 0 /\ cmdLog = <<>> /\ extRoots = 0 /\ bresult = "none"
    /\ printed = 0 /\ initrdFile = NoFile /\ kernelFile = NoFile
    /\ imageFile \in {NoFile, File(<<"an earlier image">>)}
    /\ guardArmed = FALSE /\ defused = FALSE
    /\ stagingDir = FALSE /\ mountDir = FALSE /\ mounted = FALSE
    /\ apc = "off" /\ bootArgs = <<>> /\ argKey = <<>> /\ argValue = <<>>
    /\ argBase = <<>>
    /\ mpc = "off" /\ largs = <<>> /\ launch = NoLaunch /\ procs = <<>>

\* a BootArgs (new, or from the base command line) before arg()
BootInit ==
    /\ npc = "off" /\ nargs = <<>> /\ nhostAddr = NoNet /\ ifs = <<>> /\ nidx = 0
    /\ nresult = "none" /\ ncmds = <<>> /\ host = CleanHost /\ passes = 0
    /\ completed = 0
    /\ cpc = "off" /\ cfg = <<>> /\ cfgFile = NoFile /\ cresult = "none"
    /\ bpc = "off" /\ bvariant = "none" /\ bstdout = <<>> /\ container = NoContainer
    /\ bstep = 0 /\ cmdLog = <<>> /\ extRoots = 0 /\ bresult = "none"
    /\ printed = 0 /\ initrdFile = NoFile /\ kernelFile = NoFile
    /\ imageFile = NoFile /\ guardArmed = FALSE /\ defused = FALSE
    /\ stagingDir = FALSE /\ mountDir = FALSE /\ mounted = FALSE
    /\ apc = "start"
    /\ bootArgs \in {<<>>, BASE_BOOT_ARGS}
    /\ argKey = <<>> /\ argValue = <<>> /\ argBase = <<>>
    /\ mpc = "off" /\ largs = <<>> /\ launch = NoLaunch /\ procs = <<>>

\* two `codepot init` processes are about to evaluate the gate on the
\* config path, which holds no file
RaceInit ==
    /\ npc = "off" /\ nargs = <<>> /\ nhostAddr = NoNet /\ ifs = <<>> /\ nidx = 0
    /\ nresult = "none" /\ ncmds = <<>> /\ host = CleanHost /\ passes = 0
    /\ completed = 0
    /\ cpc = "off" /\ cfg = <<>> /\ cfgFile = NoFile /\ cresult = "none"
    /\ bpc = "off" /\ bvariant = "none" /\ bstdout = <<>> /\ container = NoContainer
    /\ bstep = 0 /\ cmdLog = <<>> /\ extRoots = 0 /\ bresult = "none"
    /\ printed = 0 /\ initrdFile = NoFile /\ kernelFile = NoFile
    /\ imageFile = NoFile /\ guardArmed = FALSE /\ defused = FALSE
    /\ stagingDir = FALSE /\ mountDir = FALSE /\ mounted = FALSE
    /\ apc = "off" /\ bootArgs = <<>> /\ argKey = <<>> /\ argValue = <<>>
    /\ argBase = <<>>
    /\ mpc = "off" /\ largs = <<>> /\ launch = NoLaunch
    /\ procs \in [Procs -> { Proc(a) : a \in RaceArgs }]

SpecNet    == NetInit /\ [][NetNext]_vars
\* init_networking runs on one thread that is never suspended for good: an
\* iteration of the loop that can be taken is taken
SpecNetLive == NetInit /\ [][NetNext]_vars /\ WF_vars(NetNameLoop)
SpecConfig == CfgInit /\ [][CfgNext]_vars
SpecBuild  == BuildInit /\ [][BuildNext]_vars
SpecImage  == ImageInit /\ [][ImageNext]_vars
SpecBoot   == BootInit /\ [][BootNext]_vars
SpecInitFlow == InitFlowInit /\ [][InitFlowNext]_vars
SpecLaunch == LaunchInit /\ [][LaunchNext]_vars
SpecRun == RunInit /\ [][RunNext]_vars
SpecRace == RaceInit /\ [][RaceNext]_vars

(***************************************************************************)
(* Properties.                                                             *)
(***************************************************************************)
SlotCount == nargs.max_parallel_vm_count
Allocated == npc \in {"cmds", "done"}
FitsBlock == SlotCount + 1 <= HostsCount(nargs.net)

\* what the allocation is to yield: SlotCount descriptors, names and
\* addresses pairwise distinct, no address the gateway's, all inside the block
AllocationSound ==
    /\ Len(ifs) = SlotCount
    /\ \A i, j \in DOMAIN ifs :
          i # j => /\ ifs[i].if_name # ifs[j].if_name
                   /\ ifs[i].ip_address.addr # ifs[j].ip_address.addr
    /\ \A i \in DOMAIN ifs :
          /\ ifs[i].ip_address.addr # nhostAddr.addr
          /\ Network(nargs.net) <= ifs[i].ip_address.addr
          /\ ifs[i].ip_address.addr <= Broadcast(nargs.net)

\* C1 as stated: for every block and slot count n with n + 1 <= usable
\* hosts, the allocation yields exactly n sound descriptors.
C1_AllocationAnySlotCount ==
    (Allocated /\ FitsBlock) => AllocationSound

\* C1 amended: for every block and slot count n <= 1 with n + 1 <= usable
\* hosts, the allocation yields exactly n descriptors, names and addresses
\* pairwise distinct, every address different from the gateway's and inside
\* the block; for n > 1 the call ends in the todo!() panic with no descriptor.
C1_AllocationUpToOneSlot ==
    /\ (Allocated /\ FitsBlock /\ SlotCount <= 1) => AllocationSound
    /\ (Allocated /\ FitsBlock /\ SlotCount > 1) => (nresult = "panic" /\ ifs = <<>>)

C1_Witness ==
    /\ npc = "cmds" /\ SlotCount = 1 /\ Len(ifs) = 1
    /\ nargs.net = Ipv4Net(0, 29)
    /\ nhostAddr = Ipv4Net(1, 29)
    /\ ifs[1].ip_address = Ipv4Net(2, 29)

\* C2: when n + 1 > usable hosts of the block, init_networking fails with
\* the capacity error and no host command has been issued (the host is
\* untouched).
C2_CapacityErrorBeforeAnyCommand ==
    (SlotCount + 1 > HostsCount(nargs.net)) =>
        /\ ncmds = <<>>
        /\ host \in InitialHosts
        /\ npc = "done" => nresult = "capacity_error"

C2_Witness ==
    /\ npc = "done" /\ nresult = "capacity_error"
    /\ nargs.net = Ipv4Net(0, 30) /\ SlotCount = 2
    /\ ncmds = <<>>

\* C6 as stated: after any number of sequential complete passes with the
\* same inputs the host holds exactly one bridge codepot0 and exactly
\* slot_count tap devices.
C6_SameDevicesAfterEveryPass ==
    (npc = "done" /\ nresult = "ok" /\ completed = passes) =>
        /\ BRIDGE_NAME \in host.devices
        /\ Cardinality(host.devices \ {BRIDGE_NAME}) = SlotCount

\* C7: starting from a host with none of the three rules, after any
\* sequence of passes, complete or aborted at any command, every rule is
\* present at most once, and exactly once after a complete pass.
C7_RulesAtMostOnce ==
    /\ \A r \in Rules : host.rules[r] <= 1
    /\ (npc = "done" /\ nresult = "ok") =>
          /\ host.rules[RULE_CONNTRACK] = 1
          /\ host.rules[RuleMasquerade(nargs.host_if_name)] = 1
          /\ host.rules[RULE_BRIDGE] = 1

C7_Witness ==
    /\ passes = 2 /\ completed = 1 /\ npc = "done" /\ nresult = "ok"
    /\ host.rules[RULE_CONNTRACK] = 1
    /\ host.rules[RuleMasquerade(nargs.host_if_name)] = 1
    /\ host.rules[RULE_BRIDGE] = 1

HandleReturned == container.container_id # NoId
TeardownsOf(id) == { i \in DOMAIN cmdLog : cmdLog[i].op = "rm" /\ cmdLog[i].id = id }
ScopeLeft == bpc \in {"kernel", "done"}

\* C3: once EphemeralContainer::new has returned a handle for an id,
\* `buildah rm <id>` is issued exactly once before the owning scope is left,
\* on every exit path, and no command targets the id after the teardown.
C3_TeardownOnceAndLast ==
    HandleReturned =>
        LET rms == TeardownsOf(container.container_id) IN
        /\ Cardinality(rms) <= 1
        /\ ScopeLeft => Cardinality(rms) = 1
        /\ \A i \in rms : \A j \in DOMAIN cmdLog :
              j > i => cmdLog[j].id # container.container_id
        /\ bpc \in {"setup", "initrd"} => rms = {}

C3_Witness ==
    /\ HandleReturned /\ bpc = "done" /\ bresult = "err_initrd"
    /\ cmdLog[Len(cmdLog)] = Issued("rm", container.container_id)
    /\ cmdLog[Len(cmdLog) - 1].op = "unshare"

ImageErrorsAfterCreate ==
    {"err_zero_fill", "err_mkfs", "err_tempdir", "err_unshare", "err_sudo"}

\* C4: whenever to_image returns an error after it created the file, no
\* file remains at image_path; a file created by the call survives only
\* when the completion marker was set, and the marker is set only after
\* every step succeeded.
C4_NoHalfBuiltImage ==
    /\ (bpc \in {"drop", "done"} /\ bresult \in ImageErrorsAfterCreate)
          => ~imageFile.exists
    /\ (bpc \in {"drop", "done"} /\ imageFile.exists
           /\ imageFile.content # <<"an earlier image">>) => defused
    /\ defused => /\ bresult = "ok"
                  /\ imageFile.content = <<"ext4", "root filesystem">>

C4_Witness ==
    /\ bpc = "done" /\ bresult = "err_sudo" /\ ~imageFile.exists /\ mounted

\* C5 as stated: after Config::write returns, either it succeeded and the
\* file holds the complete record, or it failed and no file exists at the
\* path (the call started with no file at the path).
C5_NeverPartiallyWritten ==
    (cpc = "done" /\ cresult # "err_exists") =>
        \/ cresult = "ok" /\ cfgFile.exists /\ cfgFile.content = ToJson(cfg)
        \/ cresult # "ok" /\ ~cfgFile.exists

NeedsQuotes(str) == \E i \in DOMAIN str : str[i] = SP \/ str[i] = EQ
Quoted(str) == IF NeedsQuotes(str) THEN <<DQ>> \o str \o <<DQ>> ELSE str

\* C8: BootArgs::arg appends ' key=value', the key in double quotes exactly
\* when it contains a space or '=', the value likewise, and leaves the text
\* already in the string unchanged as a prefix.
C8_ArgQuoting ==
    apc = "done" =>
        bootArgs = argBase \o <<SP>> \o Quoted(argKey) \o <<EQ>> \o Quoted(argValue)

C8_Witness ==
    /\ apc = "done" /\ argBase = BASE_BOOT_ARGS
    /\ argKey = <<"a">> /\ argValue = <<"a", SP>>
    /\ bootArgs = BASE_BOOT_ARGS \o <<SP, "a", EQ, DQ, "a", SP, DQ>>

\* the argument arg() appended, without its leading space
SerializedArg == SubSeq(bootArgs, Len(argBase) + 2, Len(bootArgs))

\* C9 as stated: for any key/value pair containing a space or '=', the
\* serialized argument, split on its first unquoted '=' and unquoted,
\* yields the original key and value.
C9_QuotingRoundTrips ==
    (apc = "done" /\ (NeedsQuotes(argKey) \/ NeedsQuotes(argValue))) =>
        ParseArg(SerializedArg) = [key |-> argKey, value |-> argValue]

NewDone == bpc \notin {"idle", "new"} /\ bstdout # InvalidUtf8
BadIdChar(c) == c \in {NL, TAB, CR} \/ c \in {EACUTE, NBSP}
NewRejectedId ==
    /\ bresult = "err_invalid_id"
    /\ container = NoContainer
    /\ \A i \in DOMAIN cmdLog : cmdLog[i].op = "from"

SurvivesTrim(str, i) ==
    \/ ~IsWhitespace(str[i])
    \/ /\ \E j \in 1..(i - 1) : ~IsWhitespace(str[j])
       /\ \E k \in (i + 1)..Len(str) : ~IsWhitespace(str[k])

C11_TeardownFailureOnlyLogged ==
    [][bpc = "drop" => bresult' = bresult]_vars

C11_Witness ==
    /\ bpc = "kernel" /\ bresult = "ok"
    /\ TeardownsOf(container.container_id) # {}
    /\ extRoots = 1

EarlierInitrd == File(<<"an earlier initrd">>)

\* C12: when the initrd already exists at the target path, init_images
\* performs no build step (no build root is created, no command is issued)
\* and leaves the file's bytes unchanged.
C12_ExistingImageUntouched ==
    [][initrdFile = EarlierInitrd =>
          /\ cmdLog = <<>> /\ extRoots = 0
          /\ initrdFile' = initrdFile /\ cmdLog' = cmdLog /\ extRoots' = extRoots]_vars

C12_Witness ==
    /\ bpc = "done" /\ bresult = "ok"
    /\ initrdFile = EarlierInitrd /\ cmdLog = <<>> /\ extRoots = 0

\* C13 as stated: when to_image returns, successfully or with an error, the
\* image is not mounted at the mount directory.
C13_NotMountedOnReturn ==
    bpc \in {"drop", "done"} => ~mounted

\* C14: a slot count greater than one makes init_networking fail fast: for
\* every block and every n > 1 the call ends in a failure, no interface
\* descriptor is returned and no host command has been issued.
C14_MoreThanOneSlotFailsFast ==
    SlotCount > 1 =>
        /\ npc \in {"idle", "done"}
        /\ npc = "done" => nresult \in {"capacity_error", "panic"}
        /\ ifs = <<>>
        /\ ncmds = <<>>
        /\ host \in InitialHosts

C14_Witness ==
    /\ npc = "done" /\ nresult = "panic" /\ SlotCount = 2
    /\ nargs.net = Ipv4Net(0, 29)
    /\ ifs = <<>> /\ ncmds = <<>> /\ passes = 2

IssuedNow == ncmds'[Len(ncmds')]
NoRepeat(cmds) ==
    \A i, j \in DOMAIN cmds :
        i < j => ~(cmds[i].op = cmds[j].op /\ cmds[i].arg = cmds[j].arg)

\* C15: in a provisioning pass every step issues exactly one command, no
\* command is issued twice, and a command that exits non-zero ends the
\* pass with an error: nothing is issued and the host is not touched after
\* it (no rollback).  A pass goes on after a failed operation only when the
\* operation is one of the delete-before-create commands.
C15_FirstFailureAborts ==
    [][ /\ npc = "cmds" =>
             /\ Len(ncmds') = Len(ncmds) + 1
             /\ SubSeq(ncmds', 1, Len(ncmds)) = ncmds
             /\ NoRepeat(ncmds')
             /\ (~OpSucceeds(IssuedNow, host)
                   /\ IssuedNow.op \notin {"link_del", "ipt_delete"}) =>
                    (npc' = "done" /\ nresult' = "cmd_error")
             /\ (npc' = "cmds" \/ nresult' = "ok") =>
                    \/ OpSucceeds(IssuedNow, host)
                    \/ IssuedNow.op \in {"link_del", "ipt_delete"}
        /\ npc = "done" => (ncmds' = ncmds /\ host' = host /\ nresult' = nresult)
      ]_vars

C15_Witness ==
    /\ npc = "done" /\ nresult = "cmd_error"
    /\ ~host.tun /\ host.devices = {BRIDGE_NAME}
    /\ Len(ncmds) = 13
    /\ ncmds[12].op = "link_del" /\ ncmds[13].op = "tuntap_add"
    /\ host.rules[RULE_CONNTRACK] = 1 /\ host.rules[RULE_BRIDGE] = 1

\* C16: the config file is created only if absent and never overwritten in
\* place: Config::write on a path where a file exists fails and leaves the
\* file's content unchanged, and over any sequence of writes a file that is
\* there keeps its content.
C16_CreatedOnlyIfAbsent ==
    [][ /\ (cpc = "start" /\ cfgFile.exists) =>
              (cpc' = "done" /\ cresult' = "err_exists" /\ cfgFile' = cfgFile)
        /\ (cpc # "write" /\ cfgFile.exists) => cfgFile' = cfgFile
      ]_vars

C16_Witness ==
    /\ cpc = "done" /\ cresult = "err_exists"
    /\ cfgFile.exists /\ Len(cfgFile.content) = Len(ToJson(cfg))
    /\ cfgFile.content # OldContent
    /\ cfgFile.content # ToJson(cfg)

\* C17: the image gate and the config gate of `codepot init` are
\* independent: with the config record there already, init issues no
\* network command and leaves the record unchanged, whether or not an image
\* was built in the run; with the record absent, init returns Ok only after
\* the network was provisioned and the record written, also when the images
\* were there already.
C17_GatesIndependent ==
    /\ cfgFile = File(OldContent) =>
          /\ ncmds = <<>> /\ host \in InitialHosts
          /\ npc = "off" /\ cpc = "off"
    /\ (mpc = "ok" /\ cfgFile # File(OldContent)) =>
          /\ nresult = "ok" /\ completed = 1 /\ ncmds # <<>>
          /\ cresult = "ok"
          /\ cfgFile = File(ToJson(Config(nargs.max_parallel_vm_count, nargs.net,
                                           nargs.host_if_name, nhostAddr, ifs)))

C17_Witness ==
    /\ mpc = "ok"
    /\ initrdFile = EarlierInitrd /\ kernelFile = File(<<"an earlier kernel">>)
    /\ cmdLog = <<>>
    /\ completed = 1 /\ Len(ncmds) = 15
    /\ cfgFile.exists /\ cfgFile.content = ToJson(cfg)

SpaceSshKeyEq == <<SP>> \o SSH_KEY_KEY \o <<EQ>>
SpaceStaticIpEq == <<SP>> \o STATIC_IP_KEY \o <<EQ>>
SpaceGatewayIpEq == <<SP>> \o GATEWAY_IP_KEY \o <<EQ>>

\* C19: MachineConfigurator::new produces a kernel command line that is the
\* fixed base string followed by exactly three arguments in the order
\* ssh_key, static_ip, gateway_ip; for the key "ab cd", the static IP
\* 10.0.0.2/24 and the gateway 10.0.0.1 it is the base followed by
\* ssh_key="ab cd" static_ip=10.0.0.2/24 gateway_ip=10.0.0.1.
C19_CommandLineOrder ==
    mpc = "built" =>
        /\ launch.boot_source.boot_args =
              BASE_BOOT_ARGS
              \o SpaceSshKeyEq \o Quoted(largs.pub_ssh_key)
              \o SpaceStaticIpEq \o Ipv4NetToString(largs.ip_address)
              \o SpaceGatewayIpEq \o Ipv4AddrToString(largs.host_address)
        /\ (/\ largs.pub_ssh_key = KEY_AB_CD
            /\ largs.ip_address = Ipv4Net(2, 24)
            /\ largs.host_address = 1) =>
              launch.boot_source.boot_args =
                <<"c", "o", "n", "s", "o", "l", "e", EQ, "t", "t",
              "y", "S", "0", SP, "r", "e", "b", "o", "o", "t",
              EQ, "k", SP, "p", "a", "n", "i", "c", EQ, "1",
              SP, "p", "c", "i", EQ, "o", "f", "f", SP, "s",
              "s", "h", "_", "k", "e", "y", EQ, DQ, "a", "b",
              SP, "c", "d", DQ, SP, "s", "t", "a", "t", "i",
              "c", "_", "i", "p", EQ, "1", "0", ".", "0", ".",
              "0", ".", "2", "/", "2", "4", SP, "g", "a", "t",
              "e", "w", "a", "y", "_", "i", "p", EQ, "1", "0",
              ".", "0", ".", "0", ".", "1">>

C19_Witness ==
    /\ mpc = "built" /\ launch.built
    /\ largs.pub_ssh_key = KEY_AB_CD
    /\ largs.ip_address = Ipv4Net(2, 24)
    /\ largs.host_address = 1
    /\ Len(launch.boot_source.boot_args) = Len(BASE_BOOT_ARGS) + 58

\* the first interface descriptor and the host address of the record in
\* the file at config_path
PersistedIface == cfgFile.content[6].value[1]
PersistedHostAddress == cfgFile.content[5].value

\* C18: the LaunchConfig built by the run flow is consistent with the
\* PersistedConfig it was read from: its single network device has the tap
\* name and the MAC of the persisted interface descriptor, the static_ip
\* boot argument is that descriptor's address/prefix and the gateway_ip
\* boot argument is the address of the persisted host address.
C18_LaunchMatchesPersisted ==
    launch.built =>
        /\ Len(launch.net_devices) = 1
        /\ launch.net_devices[1].host_dev_name = PersistedIface.if_name
        /\ launch.net_devices[1].guest_mac = PersistedIface.mac_address
        /\ launch.boot_source.boot_args =
              BASE_BOOT_ARGS
              \o SpaceSshKeyEq \o KEY_FOO
              \o SpaceStaticIpEq
              \o Ipv4AddrToString(PersistedIface.ip_address.addr)
              \o <<"/">> \o Digits(PersistedIface.ip_address.prefix_len)
              \o SpaceGatewayIpEq
              \o Ipv4AddrToString(PersistedHostAddress.addr)

C18_Witness ==
    /\ mpc = "ok" /\ launch.built
    /\ PersistedHostAddress = Ipv4Net(1, 29)
    /\ PersistedIface.ip_address = Ipv4Net(2, 29)
    /\ launch.net_devices[1].host_dev_name = PersistedIface.if_name

\* the first usable host of a block: the address after the network address,
\* or the network address itself for a /31 or /32
FirstUsable(net) ==
    LET size == 2^(32 - net.prefix_len)
        base == net.addr - (net.addr % size)
    IN  IF net.prefix_len < 31 THEN base + 1 ELSE base

AllocationDone ==
    npc = "cmds" \/ (npc = "done" /\ nresult \in {"ok", "cmd_error"})

\* C20: the gateway address is the first usable host of the block with the
\* block's prefix length, the i-th descriptor has the i-th usable host after
\* the gateway, and every name is the fixed prefix followed by 6
\* alphanumeric characters; for 10.0.0.0/29 and slot count 1 the gateway is
\* 10.0.0.1 and the one descriptor has an address in 10.0.0.2..10.0.0.6.
C20_GatewayFirstThenInOrder ==
    AllocationDone =>
        /\ nhostAddr = [addr |-> FirstUsable(nargs.net),
                        prefix_len |-> nargs.net.prefix_len]
        /\ \A i \in DOMAIN ifs :
              /\ ifs[i].ip_address = [addr |-> FirstUsable(nargs.net) + i,
                                      prefix_len |-> nargs.net.prefix_len]
              /\ Len(ifs[i].if_name) = Len(IF_NAME_PREFIX) + 6
              /\ SubSeq(ifs[i].if_name, 1, Len(IF_NAME_PREFIX)) = IF_NAME_PREFIX
              /\ \A k \in (Len(IF_NAME_PREFIX) + 1)..Len(ifs[i].if_name) :
                    ifs[i].if_name[k] \in Alphanumeric
        /\ (nargs.net = Ipv4Net(0, 29) /\ SlotCount = 1) =>
              /\ nhostAddr.addr = 1
              /\ Len(ifs) = 1
              /\ ifs[1].ip_address.addr \in 2..6

C20_Witness ==
    /\ npc = "done" /\ nresult = "ok"
    /\ nargs.net = Ipv4Net(0, 29) /\ SlotCount = 1
    /\ nhostAddr = Ipv4Net(1, 29)
    /\ Len(ifs) = 1
    /\ ifs[1].ip_address = Ipv4Net(2, 29)
    /\ ifs[1].if_name = RandomIfName(<<"b", "7", "Z", "q", "0", "1">>)

\* C21: the credentials are handed back exactly once: a run of init_images
\* that builds a new initrd prints the username and password exactly one
\* time, a run that skips the build because the initrd is there prints
\* them not at all, and no run prints them twice.
C21_CredentialsExactlyOnce ==
    /\ printed <= 1
    /\ initrdFile = File(<<"cpio archive">>) => printed = 1
    /\ bpc = "initrd" => printed = 1
    /\ bresult \in {"err_from", "err_utf8", "err_invalid_id", "err_setup"}
         => printed = 0
    /\ initrdFile = EarlierInitrd => printed = 0

C21_Witness ==
    /\ bpc = "done" /\ bresult = "ok" /\ printed = 1
    /\ initrdFile = File(<<"cpio archive">>)
    /\ kernelFile = File(<<"vmlinux">>)

\* C22 as stated: when to_image returns, no staging directory and no mount
\* directory created by it remains on the host; the only new entry is the
\* image file on success and there is none on failure.
C22_OnlyTheImageFileRemains ==
    bpc \in {"drop", "done"} =>
        /\ ~stagingDir
        /\ ~mountDir
        /\ bresult # "ok" /\ imageFile # File(<<"an earlier image">>)
             => ~imageFile.exists

BuildErrors == {"err_from", "err_utf8", "err_invalid_id", "err_setup", "err_initrd"}
PhaseRank(phase) ==
    CASE phase = "create" -> 0
      [] phase = "packages" -> 1
      [] phase = "account" -> 2
      [] phase = "services" -> 3
      [] phase = "files" -> 4
      [] phase = "extract" -> 5
FixedOrder == <<Step("from", "create")>> \o SetupStepsInitrd \o InitrdSteps
BuildCommands == SelectSeq(cmdLog, LAMBDA c : c.op # "rm")
OrderedSoFar ==
    /\ Len(BuildCommands) <= Len(FixedOrder)
    /\ \A i \in DOMAIN BuildCommands : BuildCommands[i].op = FixedOrder[i].op
    /\ \A i, j \in DOMAIN BuildCommands :
           i < j => PhaseRank(FixedOrder[i].phase) <= PhaseRank(FixedOrder[j].phase)
    /\ \A i \in DOMAIN cmdLog : cmdLog[i].op = "rm" => i = Len(cmdLog)
    /\ bresult \in {"err_from", "err_utf8", "err_invalid_id"} => Len(BuildCommands) = 1
    /\ bresult = "err_setup" =>
           /\ Len(BuildCommands) <= 1 + Len(SetupStepsInitrd)
           /\ \A i \in DOMAIN cmdLog : cmdLog[i].op # "unshare"
    /\ bpc = "initrd" => Len(BuildCommands) = Len(SetupStepsInitrd) + bstep
NothingAfterFirstError ==
    bresult \in BuildErrors =>
        /\ bresult' = bresult
        /\ cmdLog' = cmdLog
             \/ cmdLog' = Append(cmdLog, Issued("rm", container.container_id))

\* C23: the build aborts on its first failing step.  The commands are issued
\* in the fixed order create, package install, account creation, service
\* enablement, file injection, extraction; after a failed step nothing but
\* the teardown is issued (no extraction after a failed provisioning step),
\* and init_images returns that first error.
C23_AbortOnFirstFailure ==
    []OrderedSoFar /\ [][NothingAfterFirstError]_vars

C23_Witness ==
    /\ bpc = "done" /\ bresult = "err_setup"
    /\ Len(BuildCommands) = 8
    /\ cmdLog[8].op = "chroot_in"
    /\ cmdLog[Len(cmdLog)].op = "rm" /\ Len(cmdLog) = 9

IsBridgeCmd(c) == c.op \in {"link_del", "link_up"} /\ c.arg = BRIDGE_NAME
PassRank(c) ==
    CASE c.op = "ip_forward" -> 0
      [] c.op = "link_del" /\ IsBridgeCmd(c) -> 1
      [] c.op = "bridge_add" -> 2
      [] c.op = "addr_add" -> 3
      [] c.op = "link_up" /\ IsBridgeCmd(c) -> 4
      [] c.op \in {"ipt_delete", "ipt_append"} -> 5
      [] OTHER -> 6

\* C24: a provisioning pass works in a fixed order: IPv4 forwarding is
\* enabled first, then the bridge is deleted and created again, given the
\* gateway's address and brought up, then the NAT and forwarding rules are
\* installed, and only then the taps are set up; a tap is attached to the
\* bridge only when the bridge exists.
C24_PassOrder ==
    /\ ncmds # <<>> => ncmds[1].op = "ip_forward"
    /\ \A i, j \in DOMAIN ncmds : i < j => PassRank(ncmds[i]) <= PassRank(ncmds[j])
    /\ \A i \in DOMAIN ncmds :
           PassRank(ncmds[i]) = 6 =>
               \E j \in 1..(i - 1) :
                   ncmds[j].op = "ipt_append" /\ ncmds[j].arg = RULE_BRIDGE
    /\ \A i \in DOMAIN ncmds :
           ncmds[i].op = "addr_add" => ncmds[i].arg = nhostAddr
    /\ host.master # {} => BRIDGE_NAME \in host.devices

C24_Witness ==
    /\ npc = "done" /\ nresult = "ok" /\ Len(ifs) = 1
    /\ Len(ncmds) = 15
    /\ ncmds[15] = Cmd("link_up", ifs[1].if_name)
    /\ host.master = {ifs[1].if_name}

CompletePass == npc = "done" /\ nresult = "ok"
RuleInDev(r) == r[2]
RuleOutIf(r) == r[3]
InstalledRules == { r \in Rules : host.rules[r] > 0 }
TapCommandsAt(k, if_name) ==
    /\ k + 3 <= Len(ncmds)
    /\ ncmds[k] = Cmd("link_del", if_name)
    /\ ncmds[k + 1] = Cmd("tuntap_add", if_name)
    /\ ncmds[k + 2] = Cmd("set_master", if_name)
    /\ ncmds[k + 3] = Cmd("link_up", if_name)
TapIsSetUp(if_name) ==
    /\ \E k \in DOMAIN ncmds : TapCommandsAt(k, if_name)
    /\ if_name \in host.devices
    /\ if_name \in host.master
    /\ if_name \in host.up

\* C25 as stated: for each allocated interface a complete pass deletes any
\* stale device of the same name, creates the tap, attaches it to the
\* bridge, brings it up, and installs a forwarding rule permitting traffic
\* between that device and the egress interface; after a complete pass such
\* a rule exists for every allocated interface.
C25_RulePerInterface ==
    CompletePass =>
        \A i \in DOMAIN ifs :
            /\ TapIsSetUp(ifs[i].if_name)
            /\ \E r \in InstalledRules : RuleInDev(r) = ifs[i].if_name

\* C25 amended: for each allocated interface a complete pass deletes any
\* stale device of the same name, creates the tap, attaches it to the
\* bridge and brings it up, with these four commands and nothing else: no
\* firewall rule names a tap.  The one forwarding rule of the pass accepts
\* what comes in on the bridge the taps are attached to.
C25_TapSetUpUnderBridgeRule ==
    /\ CompletePass =>
           /\ \A i \in DOMAIN ifs : TapIsSetUp(ifs[i].if_name)
           /\ host.rules[RULE_BRIDGE] >= 1
           /\ host.master = { ifs[i].if_name : i \in DOMAIN ifs }
    /\ \A r \in InstalledRules : RuleInDev(r) \in {<<>>, BRIDGE_NAME}
    /\ \A k \in DOMAIN ncmds :
           ncmds[k].op \in {"ipt_append", "ipt_delete"} =>
               RuleInDev(ncmds[k].arg) \in {<<>>, BRIDGE_NAME}

C25_Witness ==
    /\ CompletePass /\ Len(ifs) = 1 /\ passes = 2
    /\ TapIsSetUp(ifs[1].if_name)
    /\ InstalledRules = {RULE_CONNTRACK, RuleMasquerade(nargs.host_if_name), RULE_BRIDGE}

ConfigFileAtStart == {NoFile, File(OldContent)}
RecordsWhatWasReturned(content) ==
    /\ Len(content) <= 7
    /\ Len(content) >= 2 => content[2].value = nargs.max_parallel_vm_count
    /\ Len(content) >= 3 => content[3].value = nargs.net
    /\ Len(content) >= 4 => content[4].value = nargs.host_if_name
    /\ Len(content) >= 5 => content[5].value = nhostAddr
    /\ Len(content) >= 6 => content[6].value = ifs
WriteOnlyAfterProvisioning ==
    /\ cpc # "off" =>
           /\ CompletePass /\ bresult = "ok" /\ completed = 1
           /\ cfg.host_address = nhostAddr /\ cfg.interfaces = ifs
    /\ cfgFile \notin ConfigFileAtStart =>
           /\ cpc # "off"
           /\ RecordsWhatWasReturned(cfgFile.content)
    /\ (mpc \in {"err", "panic"} /\ ~CompletePass) =>
           /\ cpc = "off"
           /\ cfgFile \in ConfigFileAtStart
           /\ bresult # "ok" => ncmds = <<>> /\ npc = "off"
           /\ npc = "done" => ConfigGate(cfgFile)
ConfigFileTouchedOnlyByWrite ==
    cfgFile' # cfgFile => CompletePass /\ mpc = "write"

\* C26: the config record is written only after the network provisioning
\* of the same run completed successfully, and it records exactly the
\* interface descriptors and the gateway address init_networking returned.
\* When init_images or init_networking fails no config file is created, so
\* the gate of the next init is open and it provisions again.
C26_ConfigOnlyAfterProvisioning ==
    []WriteOnlyAfterProvisioning /\ [][ConfigFileTouchedOnlyByWrite]_vars

C26_Witness ==
    /\ mpc = "ok" /\ cresult = "ok" /\ CompletePass
    /\ Len(ifs) = 1
    /\ Len(cfgFile.content) = 7
    /\ cfgFile.content[6].value = ifs
    /\ cfgFile.content[5].value = nhostAddr

InLoop == npc = "loop"
LoopLeft ==
    /\ npc = "cmds" /\ nidx = 1
    /\ Len(ifs) = SlotCount
    /\ Cardinality({ ifs[i].if_name : i \in DOMAIN ifs }) = SlotCount
SingleIteration ==
    InLoop =>
        /\ SlotCount \in {0, 1}
        /\ npc' = "cmds"
        /\ Len(ifs') = SlotCount
        /\ Cardinality({ ifs'[i].if_name : i \in DOMAIN ifs' }) = SlotCount

\* C27: the rejection-sampling loop that draws the interface names
\* terminates: for every slot count that reaches it (0 and 1) it ends, after
\* a single iteration, with exactly slot_count distinct names.
C27_NameLoopTerminates ==
    /\ InLoop ~> LoopLeft
    /\ [][SingleIteration]_vars

C27_Witness ==
    /\ npc = "cmds" /\ nidx = 1 /\ ncmds = <<>> /\ passes = 1
    /\ SlotCount = 1 /\ Len(ifs) = 1
    /\ ifs[1].if_name \in IfNames

FromSucceeded ==
    /\ \E i \in DOMAIN cmdLog : cmdLog[i].op = "from"
    /\ bresult # "err_from"

\* C28 as stated: no external build root outlives an init run: for every
\* `buildah from` that exits successfully a teardown `buildah rm` has been
\* issued by the time init_images returns, also when the id it printed is
\* rejected or is not valid UTF-8.
C28_TeardownForEveryBuildRoot ==
    (ScopeLeft /\ FromSucceeded) =>
        \E i \in DOMAIN cmdLog : cmdLog[i].op = "rm"

EarlierImage == File(<<"an earlier image">>)
ExistingImageKept ==
    imageFile = EarlierImage =>
        /\ imageFile' = imageFile
        /\ ~guardArmed /\ ~guardArmed'
        /\ bpc = "create" => bpc' = "unwind" /\ bresult' = "err_create"
GuardOnlyOnNewFile ==
    /\ guardArmed => imageFile.exists /\ imageFile # EarlierImage
    /\ guardArmed => bresult # "err_create"
    /\ imageFile = EarlierImage =>
           bpc \notin {"zero", "mkfs", "tempdir", "unshare", "sudo"}
    /\ (imageFile = EarlierImage /\ bpc \in {"unwind", "drop", "done"})
           => bresult \notin {"ok", "none"}

\* C29: to_image on a path where a file exists already fails at the file
\* creation and leaves that file unchanged; the finalizer that deletes the
\* image is armed only after the file was newly created by this call.
C29_ExistingImageFailsAtCreate ==
    []GuardOnlyOnNewFile /\ [][ExistingImageKept]_vars

C29_Witness ==
    /\ bpc = "done" /\ bresult = "err_create"
    /\ imageFile = EarlierImage
    /\ ~guardArmed /\ ~defused

\* C30 as stated: a failed initrd materialization leaves no file at the
\* target initrd path, so a later init does not skip the build on a
\* partial artifact: its gate on the path still chooses to build.
C30_NoPartialInitrd ==
    (ScopeLeft /\ bresult \in {"err_setup", "err_initrd"}) =>
        /\ ~initrdFile.exists
        /\ InitrdGate(initrdFile) = "new"

InitWroteRecord == mpc = "ok" /\ cresult = "ok" /\ cpc = "done"

\* C31 as stated: every config record written by a successful init run
\* holds exactly max_parallel_vm_count interface descriptors and at least
\* one, so that a later run finds the descriptor for slot 0, also when init
\* was given the slot count 0.
C31_RecordHoldsSlotZero ==
    InitWroteRecord =>
        /\ FromJson(cfgFile.content).ok
        /\ Len(FromJson(cfgFile.content).config.interfaces) = SlotCount
        /\ Len(FromJson(cfgFile.content).config.interfaces) >= 1

AllThreeExist == kernelFile.exists /\ imageFile.exists /\ cfgFile.exists
NotInitedFailsAtGate ==
    /\ (mpc = "run" /\ ~AllThreeExist) =>
           /\ mpc' = "err"
           /\ UNCHANGED <<cfg, launch, largs>>
    /\ UNCHANGED <<kernelFile, imageFile, cfgFile, initrdFile>>
LaunchOnlyWhenInited ==
    /\ launch.built => AllThreeExist
    /\ mpc \in {"read", "configure", "store", "ok", "panic"} => AllThreeExist
    /\ ~AllThreeExist => mpc \in {"run", "err"} /\ ~launch.built /\ cfg = <<>>

\* C32: the run flow builds the launch configuration only when the kernel
\* image, the root filesystem image and the config record all exist; when
\* one of the three is absent it fails with the "not inited" error before
\* it reads the config record, and it writes no file.
C32_RunNeedsAllThree ==
    []LaunchOnlyWhenInited /\ [][NotInitedFailsAtGate]_vars

C32_Witness ==
    /\ mpc = "err" /\ kernelFile.exists /\ imageFile.exists /\ ~cfgFile.exists
    /\ ~launch.built /\ cfg = <<>>

IsPrefix(a, b) == Len(a) <= Len(b) /\ a = SubSeq(b, 1, Len(a))
Created(q) == q.pc = "write" \/ q.result \in {"ok", "err_write"}
Creators == { p \in Procs : Created(procs[p]) }
RecordOf(p) == ToJson(ProcConfig(procs[p]))
OneWriter ==
    /\ Cardinality(Creators) <= 1
    /\ cfgFile.exists <=> Creators # {}
    /\ \A p \in Creators :
           /\ IsPrefix(cfgFile.content, RecordOf(p))
           /\ procs[p].result = "ok" => cfgFile.content = RecordOf(p)
           /\ \A q \in Procs \ {p} :
                  /\ procs[q].result \in {"none", "skipped", "capacity_error",
                                           "invalid_hostmask", "panic", "cmd_error",
                                           "err_exists", "err_create"}
                  /\ procs[q].pc # "write"
SecondCreateFails ==
    /\ \A p \in Procs :
           (procs[p].pc = "create" /\ cfgFile.exists /\ procs'[p] # procs[p]) =>
               /\ procs'[p].pc = "done" /\ procs'[p].result = "err_exists"
               /\ cfgFile' = cfgFile
    /\ cfgFile.exists =>
           /\ cfgFile'.exists
           /\ IsPrefix(cfgFile.content, cfgFile'.content)
    /\ (\E p \in Procs : procs[p].result = "ok") => cfgFile' = cfgFile

====
